---- MODULE Spec2Model ----
(***************************************************************************)
(* Relationship dashboard: the relationship store (Account, Contact,       *)
(* Relationship, RelationshipLog tables) and the session state of          *)
(* RelationshipState, with one action per event handler.                   *)
(*                                                                         *)
(* Strings that the handlers split on "-" (node ids "acc-1", edge ids      *)
(* "rel-3") are modelled by the list of their segments: "acc-1" is         *)
(* <<"acc", "1">> and the empty string is <<"">>, as str.split("-") gives. *)
(* Names are tuples of characters so that substring search and lower()     *)
(* are computed.  Timestamps, last_modified_by and the free-text note of   *)
(* a log entry are not modelled.                                           *)
(*                                                                         *)
(* A handler that ends with `yield RelationshipState.load_data` is one     *)
(* action together with that refresh.  load_data reseeds a store that has  *)
(* neither an Account nor a Contact; the model follows the store only      *)
(* while it holds an entity.                                               *)
(***************************************************************************)
EXTENDS Integers, Sequences, FiniteSets, TLC

(* ------------------------------ bounds -------------------------------- *)

\* most Relationship rows the store may hold (inserts are disabled beyond it)
MaxRels == 2
\* most RelationshipLog rows the store may hold (logged writes are disabled beyond it)
MaxLogs == 2

\* the scores the sliders are moved to (the sliders range over -100..100)
ScoreInputs == {30}
\* the terms chosen in the edge panel's term dropdown (a subset of RelationshipTerm)
TermInputs == {"works_for", "friend"}
\* the terms chosen in the Add Connection view's term dropdown
PanelTermInputs == {"works_for"}
\* the drag-connect gestures tried on the three-entity store, as
\* <<source, target>> node references
DragPairs ==
    {<<<<"person", 1>>, <<"person", 2>>>>,
     <<<<"person", 2>>, <<"company", 1>>>>,
     <<<<"company", 1>>, <<"person", 1>>>>,
     <<<<"person", 1>>, <<"person", 1>>>>}
\* the texts typed into the target search box
Queries == {<<>>, <<"w">>}
\* most Account and Contact rows together (node creation is disabled beyond it)
MaxNodes == 3
\* the texts typed into the name fields of the node forms
NameInputs == {<<>>, <<"W">>}
\* the node types chosen in the creation form
NodeTypeInputs == {"person", "company"}
\* the changes typed into the edit form, as set_editing_node_data receives them
EditInputs == {("first_name" :> <<"W">>)}
\* the texts typed into the search box: names, a last name many contacts share,
\* a name no entity has, blanks
SearchInputs == {<<"x">>, <<"a">>, <<"n">>, <<"q">>, <<" ">>}
\* the limits set_node_limit is called with: the slider's default and two
\* limits below the stores' node counts
LimitInputs == {2, 3, 100}

(* ------------------------- models.py enums ---------------------------- *)

RelationshipType == {"employment", "social", "business"}

RelationshipTerm ==
    {"works_for", "invested_in", "competitor", "colleague", "friend", "enemy"}

(* ------------------- TERM_DEFAULTS / TERM_TO_TYPE --------------------- *)

TERM_DEFAULTS(term) ==
    CASE term = "works_for"   -> [is_directed |-> TRUE,  default_score |-> 0]
      [] term = "invested_in" -> [is_directed |-> TRUE,  default_score |-> 50]
      [] term = "competitor"  -> [is_directed |-> FALSE, default_score |-> -50]
      [] term = "colleague"   -> [is_directed |-> FALSE, default_score |-> 20]
      [] term = "friend"      -> [is_directed |-> FALSE, default_score |-> 80]
      [] term = "enemy"       -> [is_directed |-> FALSE, default_score |-> -100]
      [] OTHER                -> [is_directed |-> FALSE, default_score |-> 0]

TERM_TO_TYPE(term) ==
    CASE term = "works_for"   -> "employment"
      [] term = "invested_in" -> "business"
      [] term = "competitor"  -> "business"
      [] term = "colleague"   -> "business"
      [] term = "friend"      -> "social"
      [] term = "enemy"       -> "social"
      [] OTHER                -> "social"

(* --------------------------- string codec ----------------------------- *)

Digits == <<"0", "1", "2", "3", "4", "5", "6", "7", "8", "9">>

\* str(n) / f"{n}" for the small ids of the model
ToStr(n) == Digits[n + 1]

\* int(s) succeeds exactly on decimal strings
IsIntStr(s) == \E n \in 0..9 : ToStr(n) = s

ParseInt(s) == CHOOSE n \in 0..9 : ToStr(n) = s

EmptyStr == <<"">>

\* "company" if prefix == "acc" else "person"
PrefixType(prefix) == IF prefix = "acc" THEN "company" ELSE "person"

\* f"acc-{id}" / f"con-{id}"
NodeFullId(type, id) == <<IF type = "company" THEN "acc" ELSE "con", ToStr(id)>>

\* f"rel-{id}"
RelEdgeId(id) == <<"rel", ToStr(id)>>

\* str.lower() on one character
LowerChar(c) ==
    CASE c = "A" -> "a" [] c = "W" -> "w" [] c = "B" -> "b" [] c = "T" -> "t"
      [] c = "S" -> "s" [] c = "V" -> "v" [] c = "X" -> "x" [] c = "Y" -> "y"
      [] c = "Z" -> "z" [] c = "C" -> "c" [] c = "D" -> "d" [] c = "E" -> "e"
      [] OTHER -> c

Lower(s) == [i \in 1..Len(s) |-> LowerChar(s[i])]

\* the Python test `q in s` on strings
Contains(q, s) ==
    \E i \in 0..(Len(s) - Len(q)) : \A j \in 1..Len(q) : s[i + j] = q[j]

(* ------------------------------ state --------------------------------- *)

VARIABLES
    accounts,                \* Account table: id -> [name, ticker]
    contacts,                \* Contact table: id -> [first_name, last_name, job_title, account_id]
    relationships,           \* Relationship table: a set of rows
    logs,                    \* RelationshipLog table, in insertion order
    selected_node_id,
    selected_edge_id,
    show_side_panel,
    edit_mode,
    node_create_mode,
    is_creating_relationship,
    creation_target_id,
    creation_target_type,
    creation_target_name,
    creation_term,
    creation_score,
    relationship_target_search,
    filtered_target_nodes,
    editing_score,
    editing_relationship_type,
    editing_term,
    editing_is_directed,
    new_node_type,
    new_node_name,
    new_node_last_name,
    new_node_title_or_ticker,
    is_editing,
    editing_node_id,
    editing_node_type,
    editing_node_data,       \* a dict: field name -> text
    session,                 \* the open rx.session(): its pending writes
    peer,                    \* the open rx.session() of another client of the database
    filtered_accounts,       \* the Account rows load_data selected: id -> row
    filtered_contacts,       \* the Contact rows load_data selected: id -> row
    filtered_relationships,  \* the Relationship rows load_data selected
    search_query,
    node_limit,
    show_historic,
    zoom_level,              \* in hundredths: 100 is zoom_level 1.0
    toast                    \* the notification the last handler returned

store == <<accounts, contacts, relationships, logs>>

panel == <<show_side_panel, edit_mode, node_create_mode>>

creation ==
    <<creation_target_id, creation_target_type, creation_target_name,
      creation_term, creation_score>>

target_list == <<relationship_target_search, filtered_target_nodes>>

editing ==
    <<editing_score, editing_relationship_type, editing_term, editing_is_directed>>

\* what load_data writes
view == <<filtered_accounts, filtered_contacts, filtered_relationships>>

\* the node creation form
node_form ==
    <<new_node_type, new_node_name, new_node_last_name, new_node_title_or_ticker>>

\* the node edit form
node_edit == <<is_editing, editing_node_id, editing_node_type, editing_node_data>>

\* the four tables as one record
Tables(accs, cons, rels, log) ==
    [accounts |-> accs, contacts |-> cons, relationships |-> rels, logs |-> log]

\* no rx.session() is open
NoSession == [handler |-> "none", args |-> <<>>, ops |-> <<>>, pending |-> <<>>]

\* what load_data and graph_data read besides the store and the view
view_params == <<search_query, node_limit, show_historic, zoom_level>>

vars ==
    <<store, selected_node_id, selected_edge_id, panel, is_creating_relationship,
      creation, target_list, editing, node_form, node_edit, session, peer, view, view_params,
      toast>>

\* account_id = None
None == 0

\* rx.toast(message): the message, with the term or the count formatted into it
Toast(msg) == [msg |-> msg, term |-> "", count |-> 0]

\* the handler returned no notification
NoToast == Toast("")

(* --------------------------- store queries ---------------------------- *)

Max(S) == CHOOSE x \in S : \A y \in S : y <= x

Min(S) == CHOOSE x \in S : \A y \in S : x <= y

\* the id the store gives an inserted Relationship row (INTEGER PRIMARY KEY)
NextRelId == IF relationships = {} THEN 1 ELSE Max({r.id : r \in relationships}) + 1

\* session.get(Relationship, rel_id): the set holding the row, or {} for None
GetRel(rel_id) == {r \in relationships : r.id = rel_id}

\* select(Relationship).where(source == ..., target == ...): the matching rows
Matching(src_type, src_id, tgt_type, tgt_id) ==
    {r \in relationships :
        /\ r.source_type = src_type /\ r.source_id = src_id
        /\ r.target_type = tgt_type /\ r.target_id = tgt_id}

\* .first() of that query: the matching row of least id, as a set ({} for None)
FindExisting(src_type, src_id, tgt_type, tgt_id) ==
    LET m == Matching(src_type, src_id, tgt_type, tgt_id)
    IN  {r \in m : r.id = Min({x.id : x \in m})}

\* an ascending list of a finite set of integers
RECURSIVE SortedSeq(_)
SortedSeq(S) ==
    IF S = {} THEN <<>> ELSE <<Min(S)>> \o SortedSeq(S \ {Min(S)})

(* ------------------------------ load_data ----------------------------- *)

\* node_limit: int = 100
DefaultNodeLimit == 100

\* zoom_level: float = 1.0, in hundredths
DefaultZoom == 100

\* the first n elements of a list: list[:n]
Take(list, n) == SubSeq(list, 1, IF Len(list) < n THEN Len(list) ELSE n)

\* the elements of a list
Range(list) == {list[i] : i \in 1..Len(list)}

\* select(Relationship), with .where(is_active == True) unless show_historic:
\* the rows both selection modes count
CountedRels_all(rels, historic) == rels

CountedRels(rels, historic) == {r \in rels : historic \/ r.is_active}

\* .all(): the counted rows in the order the table is scanned, by id
RelScan(counted) ==
    LET ids == SortedSeq({r.id : r \in counted})
    IN  [i \in 1..Len(ids) |-> CHOOSE r \in counted : r.id = ids[i]]

\* the (type, id) keys of a row's endpoints
SourceKey(r) == <<r.source_type, r.source_id>>

TargetKey(r) == <<r.target_type, r.target_id>>

\* counter[source] += 1; counter[target] += 1 over the scan: a key's count
Count(node, scan) ==
    Cardinality({i \in 1..Len(scan) : SourceKey(scan[i]) = node})
        + Cardinality({i \in 1..Len(scan) : TargetKey(scan[i]) = node})

\* the Counter's keys in insertion order: a row's source before its target
RECURSIVE CounterKeys(_, _)
CounterKeys(scan, keys) ==
    IF scan = <<>>
    THEN keys
    ELSE LET src == SourceKey(Head(scan))
             tgt == TargetKey(Head(scan))
             k1  == IF src \in Range(keys) THEN keys ELSE Append(keys, src)
             k2  == IF tgt \in Range(k1) THEN k1 ELSE Append(k1, tgt)
         IN  CounterKeys(Tail(scan), k2)

\* Counter.most_common sorts by count, descending, and keeps keys of equal
\* count in insertion order: `node` goes behind every key counted as often
RECURSIVE InsertByCount_unstable(_, _, _)
\* a faulty variant: a key goes ahead of the keys counted as often
InsertByCount_unstable(node, sorted, scan) ==
    IF sorted = <<>>
    THEN <<node>>
    ELSE IF Count(Head(sorted), scan) > Count(node, scan)
         THEN <<Head(sorted)>> \o InsertByCount_unstable(node, Tail(sorted), scan)
         ELSE <<node>> \o sorted

RECURSIVE InsertByCount(_, _, _)
InsertByCount(node, sorted, scan) ==
    IF sorted = <<>>
    THEN <<node>>
    ELSE IF Count(Head(sorted), scan) >= Count(node, scan)
         THEN <<Head(sorted)>> \o InsertByCount(node, Tail(sorted), scan)
         ELSE <<node>> \o sorted

RECURSIVE SortByCount(_, _, _)
SortByCount(keys, sorted, scan) ==
    IF keys = <<>>
    THEN sorted
    ELSE SortByCount(Tail(keys), InsertByCount(Head(keys), sorted, scan), scan)

\* counter.most_common(limit)
most_common(scan, limit) ==
    Take(SortByCount(CounterKeys(scan, <<>>), <<>>, scan), limit)

\* get_most_connected_nodes: top_node_set
get_most_connected_nodes(counted, limit) ==
    Range(most_common(RelScan(counted), limit))

\* SQL LIKE on lower-cased operands: % matches any run, _ any one character
RECURSIVE Like(_, _)
Like(p, s) ==
    IF p = <<>>
    THEN s = <<>>
    ELSE IF Head(p) = "%"
         THEN Like(Tail(p), s) \/ (s # <<>> /\ Like(p, Tail(s)))
         ELSE /\ s # <<>>
              /\ Head(p) = "_" \/ Head(p) = Head(s)
              /\ Like(Tail(p), Tail(s))

\* col(...).ilike(f"%{query}%")
ILike(query, s) == Like(<<"%">> \o Lower(query) \o <<"%">>, Lower(s))

\* acc_matches and con_matches, as node keys
Seeds(accs, cons, query) ==
    {<<"company", id>> : id \in {i \in DOMAIN accs : ILike(query, accs[i].name)}}
        \cup {<<"person", id>> :
                id \in {i \in DOMAIN cons :
                           \/ ILike(query, cons[i].first_name)
                           \/ ILike(query, cons[i].last_name)}}

\* adj[node]
Adjacent(node, counted) ==
    {TargetKey(r) : r \in {x \in counted : SourceKey(x) = node}}
        \cup {SourceKey(r) : r \in {x \in counted : TargetKey(x) = node}}

\* the nodes one hop from a level that were not visited before
NextLevel(level, visited, counted) ==
    UNION {Adjacent(n, counted) : n \in level} \ visited

\* a faulty variant: the expansion stops after one hop
Expanded_oneHop(frontier, counted, limit) ==
    frontier \cup NextLevel(frontier, frontier, counted)

\* a faulty variant: the expansion runs a third hop
Expanded_threeHops(frontier, counted, limit) ==
    LET level1   == NextLevel(frontier, frontier, counted)
        visited1 == frontier \cup level1
        level2   == NextLevel(level1, visited1, counted)
        visited2 == visited1 \cup level2
    IN  IF Cardinality(visited1) >= limit
        THEN visited1
        ELSE IF Cardinality(visited2) >= limit
             THEN visited2
             ELSE visited2 \cup NextLevel(level2, visited2, counted)

\* `for _ in range(2)` with its break once the visited set reaches node_limit
Expanded(frontier, counted, limit) ==
    LET level1   == NextLevel(frontier, frontier, counted)
        visited1 == frontier \cup level1
    IN  IF Cardinality(visited1) >= limit
        THEN visited1
        ELSE visited1 \cup NextLevel(level1, visited1, counted)

\* a faulty variant: the visited set is kept whole
Truncations_none(visited, limit) == {visited}

\* set(list(visited)[:node_limit]): which members survive is the iteration
\* order of a set of tuples, any subset of that size
Truncations(visited, limit) ==
    IF Cardinality(visited) > limit
    THEN {S \in SUBSET visited : Cardinality(S) = limit}
    ELSE {visited}

\* search_and_build_subgraph: the node sets it may end with
search_and_build_subgraph(accs, cons, counted, query, limit) ==
    IF Seeds(accs, cons, query) = {}
    THEN {{}}
    ELSE Truncations(Expanded(Seeds(accs, cons, query), counted, limit), limit)

\* self.search_query.strip() is empty
IsBlank(query) == \A i \in 1..Len(query) : query[i] = " "

\* the node sets load_data may select
SelectedNodeSets(accs, cons, counted, query, limit) ==
    IF ~IsBlank(query)
    THEN search_and_build_subgraph(accs, cons, counted, query, limit)
    ELSE {get_most_connected_nodes(counted, limit)}

\* select(Account).where(Account.id.in_(acc_ids))
SelectedAccounts(accs, sel) ==
    [id \in {i \in DOMAIN accs : <<"company", i>> \in sel} |-> accs[id]]

SelectedContacts(cons, sel) ==
    [id \in {i \in DOMAIN cons : <<"person", i>> \in sel} |-> cons[id]]

\* a faulty variant: a row is kept when one of its endpoints is selected
SelectedRelationships_touching(counted, sel) ==
    {r \in counted : SourceKey(r) \in sel \/ TargetKey(r) \in sel}

\* the counted rows with both endpoints selected
SelectedRelationships(counted, sel) ==
    {r \in counted : SourceKey(r) \in sel /\ TargetKey(r) \in sel}

\* the store holds an Account or a Contact: load_data does not reseed it
Seeded(accs, cons) == DOMAIN accs # {} \/ DOMAIN cons # {}

\* a faulty variant: the handler ends without the refresh
load_data_stale == UNCHANGED view

\* load_data, run on the store and the view parameters the handler leaves
load_data ==
    \E accs \in {accounts'}, cons \in {contacts'},
       counted \in {CountedRels(relationships', show_historic')},
       query \in {search_query'}, limit \in {node_limit'} :
        /\ Seeded(accs, cons)
        /\ \E sel \in SelectedNodeSets(accs, cons, counted, query, limit) :
              /\ filtered_accounts' = SelectedAccounts(accs, sel)
              /\ filtered_contacts' = SelectedContacts(cons, sel)
              /\ filtered_relationships' = SelectedRelationships(counted, sel)

(* ----------------------------- graph_data ---------------------------- *)

\* show_labels = zoom_level >= 0.6, in hundredths
LabelZoom == 60
\* small_nodes = zoom_level < 0.4
SmallNodeZoom == 40
\* simplify_edges = zoom_level < 0.5
SimplifyZoom == 50
\* should_animate_particles = total_nodes <= 100
ParticleNodeMax == 100

HexDigits ==
    <<"0", "1", "2", "3", "4", "5", "6", "7", "8", "9", "a", "b", "c", "d", "e", "f">>

\* format(n, "x") for n >= 0
RECURSIVE HexStr(_)
HexStr(n) ==
    IF n < 16
    THEN <<HexDigits[n + 1]>>
    ELSE HexStr(n \div 16) \o <<HexDigits[(n % 16) + 1]>>

\* f"{n:02x}": two places at least, the sign counted as one
Format02x(n) ==
    IF n < 0
    THEN <<"-">> \o HexStr(-n)
    ELSE IF n < 16 THEN <<"0">> \o HexStr(n) ELSE HexStr(n)

\* int(x) for x = numer / 100: truncation towards zero
IntOfHundredths(numer) ==
    IF numer >= 0 THEN numer \div 100 ELSE -((-numer) \div 100)

\* interpolate(start_rgb, end_rgb, factor) with factor = percent / 100.0: one
\* channel is int(start + (end - start) * factor)
Channel(start, end, percent) ==
    IntOfHundredths(start * 100 + (end - start) * percent)

interpolate(start_rgb, end_rgb, percent) ==
    <<"#">> \o Format02x(Channel(start_rgb[1], end_rgb[1], percent))
            \o Format02x(Channel(start_rgb[2], end_rgb[2], percent))
            \o Format02x(Channel(start_rgb[3], end_rgb[3], percent))

red_rgb == <<239, 68, 68>>

gray_rgb == <<156, 163, 175>>

green_rgb == <<16, 185, 129>>

\* a faulty variant: the score is used as it is stored
Clamped_none(score) == score

\* max(-100, min(100, score))
Clamped(score) ==
    IF score > 100 THEN 100 ELSE IF score < -100 THEN -100 ELSE score

get_edge_color(score) ==
    IF Clamped(score) < 0
    THEN interpolate(red_rgb, gray_rgb, Clamped(score) + 100)
    ELSE interpolate(gray_rgb, green_rgb, Clamped(score))

\* str.title() on the values of RelationshipType
Title(type) ==
    CASE type = "employment" -> "Employment"
      [] type = "social"     -> "Social"
      [] type = "business"   -> "Business"
      [] OTHER               -> type

\* the node of an Account row
AccountGraphNode(id, acc, zoom) ==
    [id    |-> <<"acc", ToStr(id)>>,
     type  |-> "account",
     group |-> "company",
     data  |-> [label        |-> IF zoom >= LabelZoom THEN acc.name ELSE <<>>,
                name         |-> acc.name,
                display_name |-> acc.name,
                ticker       |-> acc.ticker,
                job          |-> "Company",
                type         |-> "company"],
     width |-> IF zoom < SmallNodeZoom THEN "50px" ELSE "100px"]

\* the node of a Contact row
ContactGraphNode(id, con, zoom) ==
    [id    |-> <<"con", ToStr(id)>>,
     type  |-> "contact",
     group |-> "person",
     data  |-> [label        |-> IF zoom >= LabelZoom
                                 THEN con.first_name \o <<" ">> \o con.last_name
                                 ELSE <<>>,
                first_name   |-> con.first_name,
                last_name    |-> con.last_name,
                display_name |-> con.first_name \o <<" ">> \o con.last_name,
                job          |-> con.job_title,
                job_title    |-> con.job_title,
                type         |-> "person"],
     width |-> IF zoom < SmallNodeZoom THEN "30px" ELSE "60px"]

\* the edge graph_data adds for a shown Contact whose account_id is a shown
\* Account
EmploymentEdge(con_id, con_acc_id) ==
    [id       |-> <<"emp", ToStr(con_id), ToStr(con_acc_id)>>,
     source   |-> <<"acc", ToStr(con_acc_id)>>,
     target   |-> <<"con", ToStr(con_id)>>,
     type     |-> "smoothstep",
     animated |-> FALSE,
     style    |-> [stroke |-> "#334155", strokeWidth |-> 2, strokeDasharray |-> "5,5"],
     data     |-> [type |-> "employment", score |-> 0]]

\* edge_dict before the branches on is_active and is_employment
EdgeDict(rel) ==
    LET edge_dict ==
            [id     |-> RelEdgeId(rel.id),
             source |-> <<IF rel.source_type = "company" THEN "acc" ELSE "con",
                          ToStr(rel.source_id)>>,
             target |-> <<IF rel.target_type = "company" THEN "acc" ELSE "con",
                          ToStr(rel.target_id)>>,
             type   |-> "smoothstep",
             data   |-> [score       |-> rel.score,
                         type        |-> rel.relationship_type,
                         term        |-> rel.term,
                         is_directed |-> rel.is_directed,
                         is_active   |-> rel.is_active]]
    IN  IF rel.is_directed
        THEN edge_dict @@ [markerEnd |-> "arrowclosed"]
        ELSE edge_dict

\* a faulty variant: the simplified edge is drawn without its particles
SimplifiedEdge_still(edge_color, should_animate_particles) ==
    [animated |-> FALSE,
     style    |-> [stroke |-> edge_color, strokeWidth |-> 1, strokeDasharray |-> "0"]]

\* the update of an active, non-employment edge when simplify_edges
SimplifiedEdge(edge_color, should_animate_particles) ==
    [animated |-> should_animate_particles,
     style    |-> [stroke |-> edge_color, strokeWidth |-> 1, strokeDasharray |-> "0"]]

\* the edge of a Relationship row
RelationshipEdge(rel, zoom, total_nodes) ==
    IF ~rel.is_active
    THEN EdgeDict(rel)
            @@ [animated |-> FALSE,
                label    |-> [text |-> rel.term, suffix |-> "(Deleted)"],
                style    |-> [stroke |-> "#94a3b8", strokeWidth |-> 1,
                              strokeDasharray |-> "5,5", opacity |-> 40]]
    ELSE IF rel.relationship_type = "employment"
    THEN EdgeDict(rel)
            @@ [animated |-> FALSE,
                style    |-> [stroke |-> "#334155", strokeWidth |-> 2,
                              strokeDasharray |-> "5,5"]]
    ELSE IF zoom < SimplifyZoom
    THEN EdgeDict(rel)
            @@ SimplifiedEdge(get_edge_color(rel.score), total_nodes <= ParticleNodeMax)
    ELSE EdgeDict(rel)
            @@ [animated |-> total_nodes <= ParticleNodeMax,
                label    |-> [text |-> Title(rel.relationship_type), score |-> rel.score],
                style    |-> [stroke |-> get_edge_color(rel.score), strokeWidth |-> 3,
                              strokeDasharray |-> "0"]]

\* graph_data["nodes"]: the shown accounts, then the shown contacts
GraphNodes(accs, cons, zoom) ==
    [i \in 1..Len(SortedSeq(DOMAIN accs)) |->
        AccountGraphNode(SortedSeq(DOMAIN accs)[i], accs[SortedSeq(DOMAIN accs)[i]], zoom)]
      \o [i \in 1..Len(SortedSeq(DOMAIN cons)) |->
            ContactGraphNode(SortedSeq(DOMAIN cons)[i], cons[SortedSeq(DOMAIN cons)[i]], zoom)]

\* the contacts that get an employment edge, in the order of the list
Employed(accs, cons) ==
    SortedSeq({id \in DOMAIN cons :
                  cons[id].account_id # None /\ cons[id].account_id \in DOMAIN accs})

\* the rows the edge loop does not skip
Drawn(rels, historic) == {r \in rels : r.is_active \/ historic}

\* graph_data["edges"]: the employment edges, then the relationship edges
GraphEdges(accs, cons, rels, zoom, historic) ==
    [i \in 1..Len(Employed(accs, cons)) |->
        EmploymentEdge(Employed(accs, cons)[i], cons[Employed(accs, cons)[i]].account_id)]
      \o [i \in 1..Len(RelScan(Drawn(rels, historic))) |->
            RelationshipEdge(RelScan(Drawn(rels, historic))[i], zoom,
                             Cardinality(DOMAIN accs) + Cardinality(DOMAIN cons))]

\* the computed var on the current state
graph_data ==
    [nodes |-> GraphNodes(filtered_accounts, filtered_contacts, zoom_level),
     edges |-> GraphEdges(filtered_accounts, filtered_contacts,
                          filtered_relationships, zoom_level, show_historic)]

(* ------------------------------- Init --------------------------------- *)

Init ==
    /\ accounts = (1 :> [name |-> <<"A", "c">>, ticker |-> <<"A">>])
    /\ contacts = (1 :> [first_name |-> <<"B">>, last_name |-> <<"W">>,
                         job_title |-> <<"c">>, account_id |-> 1]
                   @@ 2 :> [first_name |-> <<"T">>, last_name |-> <<"S">>,
                            job_title |-> <<"c">>, account_id |-> None])
    /\ relationships = {}
    /\ logs = <<>>
    /\ selected_node_id = EmptyStr
    /\ selected_edge_id = EmptyStr
    /\ show_side_panel = FALSE
    /\ edit_mode = "none"
    /\ node_create_mode = FALSE
    /\ is_creating_relationship = FALSE
    /\ creation_target_id = 0
    /\ creation_target_type = ""
    /\ creation_target_name = <<>>
    /\ creation_term = "friend"
    /\ creation_score = 0
    /\ relationship_target_search = <<>>
    /\ filtered_target_nodes = <<>>
    /\ editing_score = 0
    /\ editing_relationship_type = ""
    /\ editing_term = ""
    /\ editing_is_directed = TRUE
    /\ new_node_type = "person"
    /\ new_node_name = <<>>
    /\ new_node_last_name = <<>>
    /\ new_node_title_or_ticker = <<>>
    /\ is_editing = FALSE
    /\ editing_node_id = 0
    /\ editing_node_type = ""
    /\ editing_node_data = <<>>
    /\ session = NoSession
    /\ peer = NoSession
    /\ filtered_accounts = <<>>
    /\ filtered_contacts = <<>>
    /\ filtered_relationships = {}
    /\ search_query = <<>>
    /\ node_limit = DefaultNodeLimit
    /\ show_historic = FALSE
    /\ zoom_level = DefaultZoom
    /\ toast = NoToast

\* a store of two persons and no company
InitPeople ==
    /\ accounts = <<>>
    /\ contacts = (1 :> [first_name |-> <<"B">>, last_name |-> <<"W">>,
                         job_title |-> <<"c">>, account_id |-> None]
                   @@ 2 :> [first_name |-> <<"T">>, last_name |-> <<"S">>,
                            job_title |-> <<"c">>, account_id |-> None])
    /\ relationships = {}
    /\ logs = <<>>
    /\ selected_node_id = EmptyStr
    /\ selected_edge_id = EmptyStr
    /\ show_side_panel = FALSE
    /\ edit_mode = "none"
    /\ node_create_mode = FALSE
    /\ is_creating_relationship = FALSE
    /\ creation_target_id = 0
    /\ creation_target_type = ""
    /\ creation_target_name = <<>>
    /\ creation_term = "friend"
    /\ creation_score = 0
    /\ relationship_target_search = <<>>
    /\ filtered_target_nodes = <<>>
    /\ editing_score = 0
    /\ editing_relationship_type = ""
    /\ editing_term = ""
    /\ editing_is_directed = TRUE
    /\ new_node_type = "person"
    /\ new_node_name = <<>>
    /\ new_node_last_name = <<>>
    /\ new_node_title_or_ticker = <<>>
    /\ is_editing = FALSE
    /\ editing_node_id = 0
    /\ editing_node_type = ""
    /\ editing_node_data = <<>>
    /\ session = NoSession
    /\ peer = NoSession
    /\ filtered_accounts = <<>>
    /\ filtered_contacts = <<>>
    /\ filtered_relationships = {}
    /\ search_query = <<>>
    /\ node_limit = DefaultNodeLimit
    /\ show_historic = FALSE
    /\ zoom_level = DefaultZoom
    /\ toast = NoToast

(* ------------------------- row constructors --------------------------- *)

\* RelationshipLog(...): previous_term / new_term default to None
LogEntry(relationship_id, previous_score, new_score, previous_term, new_term, action) ==
    [relationship_id |-> relationship_id,
     previous_score  |-> previous_score,
     new_score       |-> new_score,
     previous_term   |-> previous_term,
     new_term        |-> new_term,
     action          |-> action]

NoTerm == "None"

\* Relationship(...) as both creation paths build it, with the id the store assigns
NewRelationship(score, rel_type, term, is_directed, src_type, src_id, tgt_type, tgt_id) ==
    [id                |-> NextRelId,
     score             |-> score,
     relationship_type |-> rel_type,
     is_active         |-> TRUE,
     is_directed       |-> is_directed,
     term              |-> term,
     source_type       |-> src_type,
     source_id         |-> src_id,
     target_type       |-> tgt_type,
     target_id         |-> tgt_id]

\* create_relationship_with_term: score and directedness from TERM_DEFAULTS
create_relationship_with_term(src_type, src_id, tgt_type, tgt_id, term, rel_type) ==
    NewRelationship(TERM_DEFAULTS(term).default_score, rel_type, term,
                    TERM_DEFAULTS(term).is_directed,
                    src_type, src_id, tgt_type, tgt_id)

\* the store can take one more Relationship row / one more RelationshipLog row
CanInsertRel == NextRelId <= MaxRels

CanLog == Len(logs) < MaxLogs

(* ---------------------------- close_panel ----------------------------- *)

close_panel_effect ==
    /\ show_side_panel' = FALSE
    /\ edit_mode' = "none"
    /\ node_create_mode' = FALSE

close_panel ==
    /\ UNCHANGED <<node_form, node_edit, session, peer>>
    /\ close_panel_effect
    /\ toast' = NoToast
    /\ UNCHANGED <<store, selected_node_id, selected_edge_id,
                   is_creating_relationship, creation, target_list, editing,
                   view, view_params>>

(* ---------------------- update_relationship_score --------------------- *)

\* the row as update_relationship_score leaves it
ScoreUpdated(relationship, new_score) ==
    [relationship EXCEPT !.score = new_score]

\* a faulty variant: the log reads the score after it was overwritten
ScoreLog_stale(relationship, new_score) ==
    LogEntry(relationship.id, new_score, new_score, NoTerm, NoTerm,
             "score_change")

ScoreLog(relationship, new_score) ==
    LogEntry(relationship.id, relationship.score, new_score, NoTerm, NoTerm,
             "score_change")

update_relationship_score(rel_id, new_score) ==
    /\ UNCHANGED <<node_form, node_edit, session, peer>>
    /\ IF GetRel(rel_id) # {}
       THEN LET relationship == CHOOSE r \in GetRel(rel_id) : TRUE
            IN  /\ CanLog
                /\ relationships' =
                      (relationships \ {relationship})
                          \cup {ScoreUpdated(relationship, new_score)}
                /\ logs' = Append(logs, ScoreLog(relationship, new_score))
       ELSE UNCHANGED <<relationships, logs>>
    /\ toast' = NoToast
    /\ UNCHANGED <<accounts, contacts, selected_node_id, selected_edge_id, panel,
                   is_creating_relationship, creation, target_list, editing,
                   view_params>>
    /\ load_data

(* ---------------------- soft_delete_relationship ---------------------- *)

\* a faulty variant: the soft delete also zeroes the row's score
SoftDeleted_zeroed(relationship) ==
    [relationship EXCEPT !.is_active = FALSE, !.score = 0]

SoftDeleted(relationship) == [relationship EXCEPT !.is_active = FALSE]

SoftDeleteLog(relationship) ==
    LogEntry(relationship.id, relationship.score, 0, NoTerm, NoTerm, "soft_delete")

soft_delete_relationship(rel_id) ==
    /\ UNCHANGED <<node_form, node_edit, session, peer>>
    /\ IF GetRel(rel_id) # {}
       THEN LET relationship == CHOOSE r \in GetRel(rel_id) : TRUE
            IN  /\ CanLog
                /\ relationships' =
                      (relationships \ {relationship}) \cup {SoftDeleted(relationship)}
                /\ logs' = Append(logs, SoftDeleteLog(relationship))
       ELSE UNCHANGED <<relationships, logs>>
    /\ close_panel_effect
    /\ toast' = Toast("Relationship deleted")
    /\ UNCHANGED <<accounts, contacts, selected_node_id, selected_edge_id,
                   is_creating_relationship, creation, target_list, editing,
                   view_params>>
    /\ load_data

(* ---------------------- update_relationship_term ---------------------- *)

\* a faulty variant: the term change keeps the row's score
TermUpdated_keepScore(relationship, new_term) ==
    [relationship EXCEPT
        !.term = new_term,
        !.relationship_type = TERM_TO_TYPE(new_term),
        !.is_directed = TERM_DEFAULTS(new_term).is_directed]

\* the row as update_relationship_term leaves it
TermUpdated(relationship, new_term) ==
    [relationship EXCEPT
        !.term = new_term,
        !.relationship_type = TERM_TO_TYPE(new_term),
        !.is_directed = TERM_DEFAULTS(new_term).is_directed,
        !.score = TERM_DEFAULTS(new_term).default_score]

\* a faulty variant: the term change is logged under the score change's tag
TermLog_mistagged(relationship, new_term) ==
    LogEntry(relationship.id, relationship.score,
             TERM_DEFAULTS(new_term).default_score,
             relationship.term, new_term, "score_change")

TermLog(relationship, new_term) ==
    LogEntry(relationship.id, relationship.score,
             TERM_DEFAULTS(new_term).default_score,
             relationship.term, new_term, "term_change")

update_relationship_term(rel_id, new_term) ==
    IF new_term \notin RelationshipTerm
    THEN \* RelationshipTerm(new_term) raises ValueError
         /\ toast' = Toast("Failed to update term")
         /\ UNCHANGED <<store, selected_node_id, selected_edge_id, panel,
                        is_creating_relationship, creation, target_list, editing,
                        node_form, node_edit, session, peer, view, view_params>>
    ELSE /\ IF GetRel(rel_id) # {}
            THEN LET relationship == CHOOSE r \in GetRel(rel_id) : TRUE
                 IN  /\ CanLog
                     /\ relationships' =
                           (relationships \ {relationship})
                               \cup {TermUpdated(relationship, new_term)}
                     /\ logs' = Append(logs, TermLog(relationship, new_term))
                     /\ editing_relationship_type' = TERM_TO_TYPE(new_term)
                     /\ editing_term' = new_term
                     /\ editing_is_directed' = TERM_DEFAULTS(new_term).is_directed
                     /\ editing_score' = TERM_DEFAULTS(new_term).default_score
            ELSE UNCHANGED <<relationships, logs, editing>>
         /\ toast' = [Toast("Updated relationship to") EXCEPT !.term = new_term]
         /\ UNCHANGED <<accounts, contacts, selected_node_id, selected_edge_id, panel,
                        is_creating_relationship, creation, target_list,
                        node_form, node_edit, session, peer, view_params>>
         /\ load_data

(* ----------------------------- on_connect ----------------------------- *)

\* the relationship type and term a drag-connect asks for, by endpoint variants
ConnectDefaults(src_type, tgt_type) ==
    IF src_type = "company" /\ tgt_type = "company"
    THEN [rel_type |-> "business", default_term |-> "competitor"]
    ELSE IF \/ (src_type = "person" /\ tgt_type = "company")
            \/ (src_type = "company" /\ tgt_type = "person")
         THEN [rel_type |-> "employment", default_term |-> "works_for"]
         ELSE [rel_type |-> "social", default_term |-> "friend"]

\* `if not existing.is_active`: the found row is reactivated, not rejected
NeedsReactivation(existing) == ~existing.is_active

\* the row as on_connect's reactivation branch leaves it
ConnectReactivated(existing) == [existing EXCEPT !.is_active = TRUE]

ConnectReactivateLog(existing) ==
    LogEntry(existing.id, existing.score, existing.score, NoTerm, NoTerm,
             "reactivate")

\* the session fields on_connect sets once the relationship is stored
ConnectSelectsEdge(rel) ==
    /\ selected_edge_id' = RelEdgeId(rel.id)
    /\ editing_score' = rel.score
    /\ editing_relationship_type' = rel.relationship_type
    /\ editing_term' = rel.term
    /\ editing_is_directed' = rel.is_directed
    /\ edit_mode' = "edge"
    /\ show_side_panel' = TRUE
    /\ UNCHANGED node_create_mode
    /\ toast' = NoToast
    /\ load_data

ConnectRejected(msg) ==
    /\ toast' = Toast(msg)
    /\ UNCHANGED <<relationships, logs, selected_edge_id, panel, editing, view>>

on_connect(source, target) ==
    /\ UNCHANGED <<node_form, node_edit, session, peer>>
    /\ UNCHANGED <<accounts, contacts, selected_node_id, is_creating_relationship,
                   creation, target_list, view_params>>
    /\ IF Len(source) < 2 \/ Len(target) < 2
       THEN ConnectRejected("Invalid node identifiers")
       ELSE IF ~IsIntStr(source[2]) \/ ~IsIntStr(target[2])
       THEN \* int() raises ValueError
            ConnectRejected("Failed to create relationship")
       ELSE
         LET src_id   == ParseInt(source[2])
             tgt_id   == ParseInt(target[2])
             src_type == PrefixType(source[1])
             tgt_type == PrefixType(target[1])
             d        == ConnectDefaults(src_type, tgt_type)
             found    == FindExisting(src_type, src_id, tgt_type, tgt_id)
         IN  IF src_type = tgt_type /\ src_id = tgt_id
             THEN ConnectRejected("Cannot connect a node to itself")
             ELSE IF found # {}
             THEN LET existing == CHOOSE r \in found : TRUE
                  IN  IF NeedsReactivation(existing)
                      THEN /\ CanLog
                           /\ relationships' =
                                 (relationships \ {existing})
                                     \cup {ConnectReactivated(existing)}
                           /\ logs' = Append(logs, ConnectReactivateLog(existing))
                           /\ ConnectSelectsEdge(ConnectReactivated(existing))
                      ELSE ConnectRejected("Relationship already exists")
             ELSE LET new_rel == create_relationship_with_term(
                                     src_type, src_id, tgt_type, tgt_id,
                                     d.default_term, d.rel_type)
                  IN  /\ CanInsertRel
                      /\ relationships' = relationships \cup {new_rel}
                      /\ UNCHANGED logs
                      /\ ConnectSelectsEdge(new_rel)

(* ----------------------------- delete_node ---------------------------- *)

\* a faulty variant: only the rows with the node as source are found
RelsToDelete_sourceOnly(node_id, node_type) ==
    {r \in relationships : r.source_type = node_type /\ r.source_id = node_id}

\* a faulty variant: the rows are found by the node's numeric id alone
RelsToDelete_anyType(node_id, node_type) ==
    {r \in relationships : r.source_id = node_id \/ r.target_id = node_id}

\* the Relationship rows with the node as source or as target
RelsToDelete(node_id, node_type) ==
    {r \in relationships :
        \/ (r.source_type = node_type /\ r.source_id = node_id)
        \/ (r.target_type = node_type /\ r.target_id = node_id)}

\* a faulty variant: the cascade clears the whole log table
LogsAfterDelete_all(rels_to_delete) == SubSeq(logs, 1, 0)

\* delete(RelationshipLog).where(relationship_id == rel.id), for each removed row
LogsAfterDelete(rels_to_delete) ==
    SelectSeq(logs, LAMBDA l : l.relationship_id \notin {r.id : r \in rels_to_delete})

\* a faulty variant: the contacts linked to the account are deleted with it
ContactsDetached_cascade(node_id) ==
    [c \in {k \in DOMAIN contacts : contacts[k].account_id # node_id} |-> contacts[c]]

\* the Contact table once the contacts linked to the account are detached
ContactsDetached(node_id) ==
    [c \in DOMAIN contacts |->
        IF contacts[c].account_id = node_id
        THEN [contacts[c] EXCEPT !.account_id = None]
        ELSE contacts[c]]

\* a table without the row of the given id
WithoutRow(table, id) == [k \in (DOMAIN table) \ {id} |-> table[k]]

delete_node(node_id, node_type) ==
    LET rels_to_delete == RelsToDelete(node_id, node_type)
        deleted_count  == Cardinality(rels_to_delete)
    IN  /\ relationships' = relationships \ rels_to_delete
        /\ logs' = LogsAfterDelete(rels_to_delete)
        /\ IF node_type = "company"
           THEN IF node_id \in DOMAIN accounts
                THEN /\ contacts' = ContactsDetached(node_id)
                     /\ accounts' = WithoutRow(accounts, node_id)
                ELSE UNCHANGED <<accounts, contacts>>
           ELSE IF node_type = "person"
                THEN /\ contacts' = WithoutRow(contacts, node_id)
                     /\ UNCHANGED accounts
                ELSE UNCHANGED <<accounts, contacts>>
        /\ close_panel_effect
        /\ toast' = [Toast("Deleted node and relationships")
                        EXCEPT !.count = deleted_count]
        /\ UNCHANGED <<selected_node_id, selected_edge_id, is_creating_relationship,
                       creation, target_list, editing, node_form, node_edit, session, peer,
                       view_params>>
        /\ load_data

(* ---------------------------- on_node_click --------------------------- *)

\* the nodes the graph can display: the entities of the store
ExistingNodes ==
    {<<"company", id>> : id \in DOMAIN accounts}
        \cup {<<"person", id>> : id \in DOMAIN contacts}

on_node_click(node_id_str) ==
    /\ UNCHANGED <<node_form, node_edit, session, peer>>
    /\ selected_node_id' = node_id_str
    /\ edit_mode' = "node"
    /\ node_create_mode' = FALSE
    /\ show_side_panel' = TRUE
    /\ toast' = NoToast
    /\ UNCHANGED <<store, selected_edge_id, is_creating_relationship, creation,
                   target_list, editing, view, view_params>>

(* ------------------- relationship creation from the panel ------------- *)

\* the slice bound of filtered[:10]
TargetListMax == 10

\* get_all_nodes_for_search: every Account, then every Contact
AccountNode(id) ==
    [id |-> id, type |-> "company", name |-> accounts[id].name,
     subtitle |-> accounts[id].ticker, full_id |-> NodeFullId("company", id)]

ContactNode(id) ==
    [id |-> id, type |-> "person",
     name |-> contacts[id].first_name \o <<" ">> \o contacts[id].last_name,
     subtitle |-> contacts[id].job_title, full_id |-> NodeFullId("person", id)]

get_all_nodes_for_search ==
    LET acc == SortedSeq(DOMAIN accounts)
        con == SortedSeq(DOMAIN contacts)
    IN  [i \in 1..Len(acc) |-> AccountNode(acc[i])]
            \o [i \in 1..Len(con) |-> ContactNode(con[i])]

\* the list filter_target_nodes stores: all nodes but the selected one whose
\* name or subtitle contains the query, cut to ten
FilteredTargets(query) ==
    LET q    == Lower(query)
        keep(node) ==
            /\ node.full_id # selected_node_id
            /\ \/ Contains(q, Lower(node.name))
               \/ Contains(q, Lower(node.subtitle))
    IN  Take(SelectSeq(get_all_nodes_for_search, keep), TargetListMax)

\* side_panel: the "Add Connection" view is the one displayed
CreationViewShown ==
    show_side_panel /\ ~node_create_mode /\ is_creating_relationship

filter_target_nodes(query) ==
    /\ UNCHANGED <<node_form, node_edit, session, peer>>
    /\ CreationViewShown
    /\ relationship_target_search' = query
    /\ filtered_target_nodes' = FilteredTargets(query)
    /\ toast' = NoToast
    /\ UNCHANGED <<store, selected_node_id, selected_edge_id, panel,
                   is_creating_relationship, creation, editing, view, view_params>>

\* start_relationship_creation as the handler runs, whatever is selected
start_relationship_creation_effect ==
    /\ UNCHANGED <<node_form, node_edit, session, peer>>
    /\ is_creating_relationship' = TRUE
    /\ creation_target_id' = 0
    /\ creation_target_name' = <<>>
    /\ creation_target_type' = ""
    /\ creation_term' = "friend"
    /\ creation_score' = 0
    /\ relationship_target_search' = <<>>
    /\ filtered_target_nodes' = FilteredTargets(<<>>)
    /\ toast' = NoToast
    /\ UNCHANGED <<store, selected_node_id, selected_edge_id, panel, editing,
                   view, view_params>>

\* the Link button of search_bar, disabled while selected_node_id == ""
start_relationship_creation ==
    /\ selected_node_id # EmptyStr
    /\ start_relationship_creation_effect

set_creation_target(id, type, name) ==
    /\ UNCHANGED <<node_form, node_edit, session, peer>>
    /\ CreationViewShown
    /\ creation_target_id' = id
    /\ creation_target_type' = type
    /\ creation_target_name' = name
    /\ toast' = NoToast
    /\ UNCHANGED <<store, selected_node_id, selected_edge_id, panel,
                   is_creating_relationship, creation_term, creation_score,
                   target_list, editing, view, view_params>>

\* the term select, the score slider and Confirm Connection are displayed
TargetChosen == CreationViewShown /\ creation_target_id # 0

set_creation_term(term) ==
    /\ UNCHANGED <<node_form, node_edit, session, peer>>
    /\ TargetChosen
    /\ creation_term' = term
    /\ IF term \in RelationshipTerm
       THEN creation_score' = TERM_DEFAULTS(term).default_score
       ELSE UNCHANGED creation_score
    /\ toast' = NoToast
    /\ UNCHANGED <<store, selected_node_id, selected_edge_id, panel,
                   is_creating_relationship, creation_target_id,
                   creation_target_type, creation_target_name, target_list, editing,
                   view, view_params>>

set_creation_score(score) ==
    /\ UNCHANGED <<node_form, node_edit, session, peer>>
    /\ TargetChosen
    /\ creation_score' = score
    /\ toast' = NoToast
    /\ UNCHANGED <<store, selected_node_id, selected_edge_id, panel,
                   is_creating_relationship, creation_target_id,
                   creation_target_type, creation_target_name, creation_term,
                   target_list, editing, view, view_params>>

cancel_relationship_creation ==
    /\ UNCHANGED <<node_form, node_edit, session, peer>>
    /\ CreationViewShown
    /\ is_creating_relationship' = FALSE
    /\ creation_target_id' = 0
    /\ creation_target_name' = <<>>
    /\ toast' = NoToast
    /\ UNCHANGED <<store, selected_node_id, selected_edge_id, panel,
                   creation_target_type, creation_term, creation_score,
                   target_list, editing, view, view_params>>

\* the row as the panel's reactivation branch leaves it
PanelReactivated(existing, term, score) ==
    [existing EXCEPT
        !.is_active = TRUE,
        !.term = term,
        !.relationship_type = TERM_TO_TYPE(term),
        !.score = score]

\* previous_score is read from the row after its score was overwritten
PanelReactivateLog(existing, term, score) ==
    LogEntry(existing.id, PanelReactivated(existing, term, score).score, score,
             NoTerm, NoTerm, "reactivate_panel")

PanelRejected(msg) ==
    /\ toast' = Toast(msg)
    /\ UNCHANGED <<relationships, logs, is_creating_relationship, view>>

create_relationship_from_panel ==
    /\ UNCHANGED <<node_form, node_edit, session, peer>>
    /\ TargetChosen
    /\ UNCHANGED <<accounts, contacts, selected_node_id, selected_edge_id, panel,
                   creation, target_list, editing, view_params>>
    /\ IF selected_node_id = EmptyStr
       THEN PanelRejected("No source node selected")
       ELSE IF creation_target_id = 0
       THEN PanelRejected("Please select a target node")
       ELSE IF \/ Len(selected_node_id) < 2
               \/ ~IsIntStr(selected_node_id[2])
               \/ creation_term \notin RelationshipTerm
       THEN \* IndexError / ValueError: logged, nothing returned
            PanelRejected("")
       ELSE
         LET source_id   == ParseInt(selected_node_id[2])
             source_type == PrefixType(selected_node_id[1])
             term        == creation_term
             score       == creation_score
             rel_type    == TERM_TO_TYPE(term)
             found       == FindExisting(source_type, source_id,
                                         creation_target_type, creation_target_id)
         IN  IF found # {}
             THEN LET existing == CHOOSE r \in found : TRUE
                  IN  IF NeedsReactivation(existing)
                      THEN /\ CanLog
                           /\ relationships' =
                                 (relationships \ {existing})
                                     \cup {PanelReactivated(existing, term, score)}
                           /\ logs' = Append(logs,
                                        PanelReactivateLog(existing, term, score))
                           /\ is_creating_relationship' = FALSE
                           /\ toast' = NoToast
                           /\ load_data
                      ELSE PanelRejected("Relationship already exists")
             ELSE /\ CanInsertRel
                  /\ relationships' = relationships \cup
                        {NewRelationship(score, rel_type, term,
                                         TERM_DEFAULTS(term).is_directed,
                                         source_type, source_id,
                                         creation_target_type, creation_target_id)}
                  /\ UNCHANGED logs
                  /\ is_creating_relationship' = FALSE
                  /\ toast' = NoToast
                  /\ load_data

(* ------------------------------- Next --------------------------------- *)

\* the ids a relationship control can carry
RelIdInputs == 1..MaxRels

NodeClick ==
    \E n \in ExistingNodes : on_node_click(NodeFullId(n[1], n[2]))

Connect ==
    \E s \in ExistingNodes, t \in ExistingNodes :
        on_connect(NodeFullId(s[1], s[2]), NodeFullId(t[1], t[2]))

ConnectDrag ==
    \E d \in DragPairs :
        /\ d[1] \in ExistingNodes
        /\ d[2] \in ExistingNodes
        /\ on_connect(NodeFullId(d[1][1], d[1][2]), NodeFullId(d[2][1], d[2][2]))

UpdateScore ==
    \E id \in RelIdInputs, s \in ScoreInputs : update_relationship_score(id, s)

UpdateTerm ==
    \E id \in RelIdInputs, t \in TermInputs : update_relationship_term(id, t)

SoftDelete == \E id \in RelIdInputs : soft_delete_relationship(id)

DeleteNode == \E n \in ExistingNodes : delete_node(n[2], n[1])

FilterTargets == \E q \in Queries : filter_target_nodes(q)

SetCreationTarget ==
    \E i \in 1..Len(filtered_target_nodes) :
        set_creation_target(filtered_target_nodes[i].id,
                            filtered_target_nodes[i].type,
                            filtered_target_nodes[i].name)

SetCreationTerm == \E t \in PanelTermInputs : set_creation_term(t)

SetCreationScore == \E s \in ScoreInputs : set_creation_score(s)

\* the lifecycle engine: the handlers that write Relationship and
\* RelationshipLog rows, each called with every id and value of the input sets
Next ==
    \/ ConnectDrag
    \/ UpdateScore
    \/ UpdateTerm
    \/ SoftDelete
    \/ DeleteNode

Spec == Init /\ [][Next]_vars

\* create-or-reactivate from both entry points: the graph's clicks and drags,
\* the relationship rows' delete buttons, and the Add Connection view, used
\* in any order
NextLink ==
    \/ NodeClick
    \/ Connect
    \/ SoftDelete
    \/ start_relationship_creation
    \/ SetCreationTarget
    \/ SetCreationTerm
    \/ create_relationship_from_panel

SpecLink == InitPeople /\ [][NextLink]_vars

\* the side panel: every control of the node and Add Connection views, and
\* the graph's clicks and drags, in any order
NextPanel ==
    \/ NodeClick
    \/ Connect
    \/ close_panel
    \/ start_relationship_creation
    \/ FilterTargets
    \/ SetCreationTarget
    \/ SetCreationScore
    \/ cancel_relationship_creation
    \/ create_relationship_from_panel

SpecPanel == InitPeople /\ [][NextPanel]_vars

(* ------------------- rx.session(): writes and commit ------------------ *)

\* the statements a session holds until its commit
UpdateRel(id, fields) == [op |-> "update_rel", id |-> id, data |-> fields]

AddLog(entry) == [op |-> "add_log", id |-> entry.relationship_id, data |-> entry]

DeleteLogs(id) == [op |-> "delete_logs", id |-> id, data |-> <<>>]

DeleteRel(id) == [op |-> "delete_rel", id |-> id, data |-> <<>>]

UpdateContact(id, fields) == [op |-> "update_contact", id |-> id, data |-> fields]

DeleteContact(id) == [op |-> "delete_contact", id |-> id, data |-> <<>>]

DeleteAccount(id) == [op |-> "delete_account", id |-> id, data |-> <<>>]

\* UPDATE ... SET the given columns of a row
WithFields(row, fields) ==
    [f \in DOMAIN row |-> IF f \in DOMAIN fields THEN fields[f] ELSE row[f]]

\* one statement applied to the tables
ApplyOp(t, w) ==
    CASE w.op = "update_rel" ->
           [t EXCEPT !.relationships =
              {IF r.id = w.id THEN WithFields(r, w.data) ELSE r : r \in @}]
      [] w.op = "add_log" -> [t EXCEPT !.logs = Append(@, w.data)]
      [] w.op = "delete_logs" ->
           [t EXCEPT !.logs = SelectSeq(@, LAMBDA l : l.relationship_id # w.id)]
      [] w.op = "delete_rel" ->
           [t EXCEPT !.relationships = {r \in @ : r.id # w.id}]
      [] w.op = "update_contact" ->
           [t EXCEPT !.contacts =
              [k \in DOMAIN @ |-> IF k = w.id THEN WithFields(@[k], w.data) ELSE @[k]]]
      [] w.op = "delete_contact" ->
           [t EXCEPT !.contacts = [k \in (DOMAIN @) \ {w.id} |-> @[k]]]
      [] w.op = "delete_account" ->
           [t EXCEPT !.accounts = [k \in (DOMAIN @) \ {w.id} |-> @[k]]]

RECURSIVE ApplyAll(_, _)
ApplyAll(t, ops) ==
    IF ops = <<>> THEN t ELSE ApplyAll(ApplyOp(t, Head(ops)), Tail(ops))

\* a faulty variant: the handler commits as soon as it has written something
ReadyToCommit_early(s) == s.pending # <<>>

\* session.commit() is the last statement of the `with` block
ReadyToCommit(s) == s.ops = <<>>

\* the statements of each lifecycle mutation, in the order the handler issues them
ScoreOps(relationship, new_score) ==
    <<UpdateRel(relationship.id, [score |-> new_score]),
      AddLog(ScoreLog(relationship, new_score))>>

SoftDeleteOps(relationship) ==
    <<UpdateRel(relationship.id, [is_active |-> FALSE]),
      AddLog(SoftDeleteLog(relationship))>>

TermOps(relationship, new_term) ==
    <<UpdateRel(relationship.id,
                [term              |-> new_term,
                 relationship_type |-> TERM_TO_TYPE(new_term),
                 is_directed       |-> TERM_DEFAULTS(new_term).is_directed,
                 score             |-> TERM_DEFAULTS(new_term).default_score]),
      AddLog(TermLog(relationship, new_term))>>

ReactivateOps(existing) ==
    <<UpdateRel(existing.id, [is_active |-> TRUE]),
      AddLog(ConnectReactivateLog(existing))>>

\* for rel in rels_to_delete: delete its logs, then the row
CascadeOps(rels_to_delete) ==
    LET ids == SortedSeq({r.id : r \in rels_to_delete})
    IN  [i \in 1..(2 * Len(ids)) |->
            IF i % 2 = 1 THEN DeleteLogs(ids[(i + 1) \div 2])
                         ELSE DeleteRel(ids[i \div 2])]

\* for c in linked_contacts: c.account_id = None
DetachOps(node_id) ==
    LET ids == SortedSeq({k \in DOMAIN contacts : contacts[k].account_id = node_id})
    IN  [i \in 1..Len(ids) |-> UpdateContact(ids[i], [account_id |-> None])]

DeleteNodeOps(node_id, node_type) ==
    CascadeOps(RelsToDelete(node_id, node_type))
        \o (IF node_type = "company" /\ node_id \in DOMAIN accounts
            THEN DetachOps(node_id) \o <<DeleteAccount(node_id)>>
            ELSE IF node_type = "person" /\ node_id \in DOMAIN contacts
            THEN <<DeleteContact(node_id)>>
            ELSE <<>>)

\* `with rx.session() as session:` entered by a lifecycle mutation: the
\* handler has looked its rows up and has its statements ahead
Opened(handler, args, ops) ==
    /\ session.handler = "none"
    /\ session' = [handler |-> handler, args |-> args, ops |-> ops, pending |-> <<>>]
    /\ UNCHANGED <<store, selected_node_id, selected_edge_id, panel,
                   is_creating_relationship, creation, target_list, editing,
                   node_form, node_edit, peer, view, view_params, toast>>

begin_update_relationship_score(rel_id, new_score) ==
    /\ GetRel(rel_id) # {}
    /\ CanLog
    /\ Opened("update_relationship_score", <<rel_id, new_score>>,
              ScoreOps(CHOOSE r \in GetRel(rel_id) : TRUE, new_score))

begin_soft_delete_relationship(rel_id) ==
    /\ GetRel(rel_id) # {}
    /\ CanLog
    /\ Opened("soft_delete_relationship", <<rel_id>>,
              SoftDeleteOps(CHOOSE r \in GetRel(rel_id) : TRUE))

begin_update_relationship_term(rel_id, new_term) ==
    /\ new_term \in RelationshipTerm
    /\ GetRel(rel_id) # {}
    /\ CanLog
    /\ Opened("update_relationship_term", <<rel_id, new_term>>,
              TermOps(CHOOSE r \in GetRel(rel_id) : TRUE, new_term))

\* on_connect on a pair whose row is found inactive
begin_reactivation(src_type, src_id, tgt_type, tgt_id) ==
    /\ ~(src_type = tgt_type /\ src_id = tgt_id)
    /\ FindExisting(src_type, src_id, tgt_type, tgt_id) # {}
    /\ LET existing == CHOOSE r \in FindExisting(src_type, src_id, tgt_type, tgt_id) : TRUE
       IN  /\ NeedsReactivation(existing)
           /\ CanLog
           /\ Opened("on_connect", <<existing.id>>, ReactivateOps(existing))

begin_delete_node(node_id, node_type) ==
    Opened("delete_node", <<node_id, node_type>>, DeleteNodeOps(node_id, node_type))

\* the session issues its next statement
session_write ==
    /\ session.handler # "none"
    /\ session.ops # <<>>
    /\ session' = [session EXCEPT !.ops = Tail(@),
                                  !.pending = Append(@, Head(session.ops))]
    /\ UNCHANGED <<store, selected_node_id, selected_edge_id, panel,
                   is_creating_relationship, creation, target_list, editing,
                   node_form, node_edit, peer, view, view_params, toast>>

\* what each handler does once its `with` block is left after the commit
AfterCommit(handler, args) ==
    CASE handler = "update_relationship_score" ->
           /\ toast' = NoToast
           /\ UNCHANGED <<selected_edge_id, panel, editing>>
           /\ load_data
      [] handler = "soft_delete_relationship" ->
           /\ close_panel_effect
           /\ toast' = Toast("Relationship deleted")
           /\ UNCHANGED <<selected_edge_id, editing>>
           /\ load_data
      [] handler = "update_relationship_term" ->
           /\ editing_relationship_type' = TERM_TO_TYPE(args[2])
           /\ editing_term' = args[2]
           /\ editing_is_directed' = TERM_DEFAULTS(args[2]).is_directed
           /\ editing_score' = TERM_DEFAULTS(args[2]).default_score
           /\ toast' = [Toast("Updated relationship to") EXCEPT !.term = args[2]]
           /\ UNCHANGED <<selected_edge_id, panel>>
           /\ load_data
      [] handler = "on_connect" ->
           \E existing \in {r \in relationships : r.id = args[1]} :
               ConnectSelectsEdge(ConnectReactivated(existing))
      [] handler = "delete_node" ->
           /\ close_panel_effect
           /\ toast' = [Toast("Deleted node and relationships") EXCEPT
                           !.count = Cardinality(RelsToDelete(args[1], args[2]))]
           /\ UNCHANGED <<selected_edge_id, editing>>
           /\ load_data

\* session.commit(): the pending statements reach the tables together
session_commit ==
    /\ session.handler # "none"
    /\ ReadyToCommit(session)
    /\ \E t \in {ApplyAll(Tables(accounts, contacts, relationships, logs),
                           session.pending)} :
          /\ accounts' = t.accounts
          /\ contacts' = t.contacts
          /\ relationships' = t.relationships
          /\ logs' = t.logs
    /\ session' = NoSession
    /\ UNCHANGED <<selected_node_id, is_creating_relationship, creation,
                   target_list, node_form, node_edit, peer, view_params>>
    /\ AfterCommit(session.handler, session.args)

\* what the handler's `except Exception` reports
FailureToast(handler) ==
    CASE handler = "update_relationship_score" -> NoToast
      [] handler = "soft_delete_relationship" -> Toast("Failed to delete relationship")
      [] handler = "update_relationship_term" -> Toast("Failed to update term")
      [] handler = "on_connect" -> Toast("Failed to create relationship")
      [] handler = "delete_node" -> Toast("Failed to delete node")

\* the store raises inside the `with` block, at a statement or at the commit:
\* the session closes without a commit and its pending statements are lost
session_failure ==
    /\ session.handler # "none"
    /\ session' = NoSession
    /\ toast' = FailureToast(session.handler)
    /\ UNCHANGED <<store, selected_node_id, selected_edge_id, panel,
                   is_creating_relationship, creation, target_list, editing,
                   node_form, node_edit, peer, view, view_params>>

(* ------------- another client's on_connect on the same store ---------- *)

\* the other client's on_connect looks the pair up and finds the row inactive
peer_begin_reactivation(src_type, src_id, tgt_type, tgt_id) ==
    /\ peer.handler = "none"
    /\ ~(src_type = tgt_type /\ src_id = tgt_id)
    /\ FindExisting(src_type, src_id, tgt_type, tgt_id) # {}
    /\ LET existing == CHOOSE r \in FindExisting(src_type, src_id, tgt_type, tgt_id) : TRUE
       IN  /\ NeedsReactivation(existing)
           /\ CanLog
           /\ peer' = [handler |-> "on_connect", args |-> <<existing.id>>,
                       ops |-> ReactivateOps(existing), pending |-> <<>>]
    /\ UNCHANGED <<store, selected_node_id, selected_edge_id, panel,
                   is_creating_relationship, creation, target_list, editing,
                   node_form, node_edit, session, view, view_params, toast>>

peer_write ==
    /\ peer.handler # "none"
    /\ peer.ops # <<>>
    /\ peer' = [peer EXCEPT !.ops = Tail(@), !.pending = Append(@, Head(peer.ops))]
    /\ UNCHANGED <<store, selected_node_id, selected_edge_id, panel,
                   is_creating_relationship, creation, target_list, editing,
                   node_form, node_edit, session, view, view_params, toast>>

\* the other client's commit: its statements reach the tables; what this
\* client displays is untouched until its own next load_data
peer_commit ==
    /\ peer.handler # "none"
    /\ ReadyToCommit(peer)
    /\ \E t \in {ApplyAll(Tables(accounts, contacts, relationships, logs),
                           peer.pending)} :
          /\ accounts' = t.accounts
          /\ contacts' = t.contacts
          /\ relationships' = t.relationships
          /\ logs' = t.logs
    /\ peer' = NoSession
    /\ UNCHANGED <<selected_node_id, selected_edge_id, panel,
                   is_creating_relationship, creation, target_list, editing,
                   node_form, node_edit, session, view, view_params, toast>>

(* ---------------------------- node handlers --------------------------- *)

\* the store can take one more Account or Contact row
CanInsertNode ==
    Cardinality(DOMAIN accounts) + Cardinality(DOMAIN contacts) < MaxNodes

\* the id the table assigns to its next row
NextRowId(table) == IF DOMAIN table = {} THEN 1 ELSE Max(DOMAIN table) + 1

\* the same match with like in place of ilike
ILikeExact_cased(text, s) == Like(text, s)

\* col(...).ilike(text): the text is the pattern, without added wildcards
ILikeExact(text, s) == Like(Lower(text), Lower(s))

\* str.strip() and str.split(" ", 1)
RECURSIVE LStrip(_)
LStrip(s) == IF s # <<>> /\ Head(s) = " " THEN LStrip(Tail(s)) ELSE s

RECURSIVE RStrip(_)
RStrip(s) ==
    IF s # <<>> /\ s[Len(s)] = " " THEN RStrip(SubSeq(s, 1, Len(s) - 1)) ELSE s

Strip(s) == RStrip(LStrip(s))

\* the index of the first space of a text, 0 when it has none
FirstSpace(s) ==
    IF \E i \in 1..Len(s) : s[i] = " "
    THEN Min({i \in 1..Len(s) : s[i] = " "})
    ELSE 0

\* parts[0] and parts[1] (or "") of name.strip().split(" ", 1)
SplitFirstName(name) ==
    IF FirstSpace(Strip(name)) = 0
    THEN Strip(name)
    ELSE SubSeq(Strip(name), 1, FirstSpace(Strip(name)) - 1)

SplitLastName(name) ==
    IF FirstSpace(Strip(name)) = 0
    THEN <<>>
    ELSE SubSeq(Strip(name), FirstSpace(Strip(name)) + 1, Len(Strip(name)))

\* select(Contact).where(first_name.ilike(...), last_name.ilike(...)).first()
ContactExists(first_name, last_name) ==
    \E id \in DOMAIN contacts :
        /\ ILikeExact(first_name, contacts[id].first_name)
        /\ ILikeExact(last_name, contacts[id].last_name)

\* select(Account).where(name.ilike(...)).first()
AccountExists(name) ==
    \E id \in DOMAIN accounts : ILikeExact(name, accounts[id].name)

NewContact(first_name, last_name, job_title) ==
    [first_name |-> first_name, last_name |-> last_name,
     job_title |-> job_title, account_id |-> None]

NewAccount(name, ticker) == [name |-> name, ticker |-> ticker]

\* session.add(row); session.commit(): the table with the row under a new id
Inserted_row(table, row) == table @@ (NextRowId(table) :> row)

\* a dict's value for a key it has, the old value otherwise
Updated(data, key, old) == IF key \in DOMAIN data THEN data[key] ELSE old

\* the node id an int id is held as in selected_node_id: not a str, so
\* .split raises on it
IntId(id) == <<"int", ToStr(id)>>

IsIntId(node_id_str) == node_id_str[1] = "int"

start_node_creation ==
    /\ UNCHANGED <<session, peer>>
    /\ node_create_mode' = TRUE
    /\ new_node_type' = "person"
    /\ new_node_name' = <<>>
    /\ new_node_last_name' = <<>>
    /\ new_node_title_or_ticker' = <<>>
    /\ show_side_panel' = TRUE
    /\ edit_mode' = "none"
    /\ toast' = NoToast
    /\ UNCHANGED <<store, selected_node_id, selected_edge_id,
                   is_creating_relationship, creation, target_list, editing,
                   node_edit, view, view_params>>

set_new_node_type(value) ==
    /\ UNCHANGED <<session, peer>>
    /\ new_node_type' = value
    /\ toast' = NoToast
    /\ UNCHANGED <<store, selected_node_id, selected_edge_id, panel,
                   is_creating_relationship, creation, target_list, editing,
                   new_node_name, new_node_last_name, new_node_title_or_ticker,
                   node_edit, view, view_params>>

set_new_node_name(value) ==
    /\ UNCHANGED <<session, peer>>
    /\ new_node_name' = value
    /\ toast' = NoToast
    /\ UNCHANGED <<store, selected_node_id, selected_edge_id, panel,
                   is_creating_relationship, creation, target_list, editing,
                   new_node_type, new_node_last_name, new_node_title_or_ticker,
                   node_edit, view, view_params>>

set_new_node_last_name(value) ==
    /\ UNCHANGED <<session, peer>>
    /\ new_node_last_name' = value
    /\ toast' = NoToast
    /\ UNCHANGED <<store, selected_node_id, selected_edge_id, panel,
                   is_creating_relationship, creation, target_list, editing,
                   new_node_type, new_node_name, new_node_title_or_ticker,
                   node_edit, view, view_params>>

\* prepare_node_edit: the edit form filled from the selected node
prepare_node_edit ==
    /\ UNCHANGED <<session, peer>>
    /\ IF \/ selected_node_id = EmptyStr
          \/ IsIntId(selected_node_id)          \* .split raises AttributeError
          \/ Len(selected_node_id) < 2
          \/ ~IsIntStr(selected_node_id[2])      \* int() raises ValueError
       THEN UNCHANGED node_edit
       ELSE LET node_id   == ParseInt(selected_node_id[2])
                node_type == PrefixType(selected_node_id[1])
            IN  /\ is_editing' = TRUE
                /\ editing_node_id' = node_id
                /\ editing_node_type' = node_type
                /\ editing_node_data' =
                      IF node_type = "company"
                      THEN IF node_id \in DOMAIN accounts
                           THEN [name       |-> accounts[node_id].name,
                                 ticker     |-> accounts[node_id].ticker,
                                 first_name |-> <<>>,
                                 last_name  |-> <<>>,
                                 job_title  |-> <<>>]
                           ELSE editing_node_data
                      ELSE IF node_id \in DOMAIN contacts
                           THEN [first_name |-> contacts[node_id].first_name,
                                 last_name  |-> contacts[node_id].last_name,
                                 job_title  |-> contacts[node_id].job_title,
                                 name       |-> contacts[node_id].first_name
                                                  \o <<" ">>
                                                  \o contacts[node_id].last_name,
                                 ticker     |-> <<>>]
                           ELSE editing_node_data
    /\ toast' = NoToast
    /\ UNCHANGED <<store, selected_node_id, selected_edge_id, panel,
                   is_creating_relationship, creation, target_list, editing,
                   node_form, view, view_params>>

\* {**self.editing_node_data, **updates}
set_editing_node_data(updates) ==
    /\ UNCHANGED <<session, peer>>
    /\ editing_node_data' = updates @@ editing_node_data
    /\ toast' = NoToast
    /\ UNCHANGED <<store, selected_node_id, selected_edge_id, panel,
                   is_creating_relationship, creation, target_list, editing,
                   node_form, is_editing, editing_node_id, editing_node_type,
                   view, view_params>>

\* save_node returns before any write: empty name or an existing row
SaveNodeRejected ==
    IF new_node_type = "person"
    THEN IsBlank(new_node_name) \/ ContactExists(new_node_name, new_node_last_name)
    ELSE IsBlank(new_node_name) \/ AccountExists(new_node_name)

\* the Account row as the update branch of save_node leaves it
AccountSaved(node) ==
    [node EXCEPT !.name = Updated(editing_node_data, "name", node.name),
                 !.ticker = Updated(editing_node_data, "ticker", node.ticker)]

ContactSaved(node) ==
    [node EXCEPT
        !.first_name = Updated(editing_node_data, "first_name", node.first_name),
        !.last_name = Updated(editing_node_data, "last_name", node.last_name),
        !.job_title = Updated(editing_node_data, "job_title", node.job_title)]

\* `yield RelationshipState.on_node_click(node)` with the saved row for its
\* argument: a row whose attributes the commit expired arrives without an
\* id, a row that kept them with its int id; None has no id
ClickedAfterSave(table) ==
    /\ selected_node_id' \in
          IF editing_node_id \in DOMAIN table
          THEN {EmptyStr, IntId(editing_node_id)}
          ELSE {EmptyStr}
    /\ edit_mode' = "node"
    /\ node_create_mode' = FALSE
    /\ show_side_panel' = TRUE

save_node ==
    /\ UNCHANGED <<session, peer>>
    /\ toast' = NoToast        \* every rx.toast(...) here is built and dropped
    /\ UNCHANGED <<relationships, logs, selected_edge_id, is_creating_relationship,
                   creation, target_list, editing, node_form, editing_node_id,
                   editing_node_type, editing_node_data, view_params>>
    /\ IF node_create_mode
       THEN IF SaveNodeRejected
            THEN UNCHANGED <<accounts, contacts, selected_node_id, panel,
                             is_editing, view>>
            ELSE /\ CanInsertNode
                 /\ IF new_node_type = "person"
                    THEN /\ contacts' =
                              Inserted_row(contacts,
                                           NewContact(new_node_name, new_node_last_name,
                                                      new_node_title_or_ticker))
                         /\ UNCHANGED accounts
                    ELSE /\ accounts' =
                              Inserted_row(accounts,
                                           NewAccount(new_node_name,
                                                      new_node_title_or_ticker))
                         /\ UNCHANGED contacts
                 /\ node_create_mode' = FALSE
                 /\ show_side_panel' = FALSE
                 /\ UNCHANGED <<selected_node_id, edit_mode, is_editing>>
                 /\ load_data
       ELSE IF edit_mode = "node" /\ editing_node_id # 0
            THEN /\ IF editing_node_type = "company"
                    THEN /\ accounts' =
                              IF editing_node_id \in DOMAIN accounts
                              THEN [accounts EXCEPT
                                      ![editing_node_id] = AccountSaved(@)]
                              ELSE accounts
                         /\ UNCHANGED contacts
                         /\ ClickedAfterSave(accounts)
                    ELSE /\ contacts' =
                              IF editing_node_id \in DOMAIN contacts
                              THEN [contacts EXCEPT
                                      ![editing_node_id] = ContactSaved(@)]
                              ELSE contacts
                         /\ UNCHANGED accounts
                         /\ ClickedAfterSave(contacts)
                 /\ is_editing' = FALSE
                 /\ load_data
            ELSE /\ UNCHANGED <<accounts, contacts, selected_node_id, panel,
                                is_editing>>
                 /\ load_data

\* validate_node_data(node_type, {"name": name, "title_or_ticker": ...})
NodeDataError(node_type, name) ==
    IF node_type = "company" /\ IsBlank(name) THEN "Company name is required"
    ELSE IF node_type = "person" /\ IsBlank(name) THEN "Name is required"
    ELSE ""

\* add_node returns a notification and writes nothing
AddNodeRejected(msg) ==
    /\ toast' = Toast(msg)
    /\ UNCHANGED <<accounts, contacts, view>>

add_node(node_type, name, title_or_ticker) ==
    /\ UNCHANGED <<relationships, logs, selected_node_id, selected_edge_id, panel,
                   is_creating_relationship, creation, target_list, editing,
                   node_form, node_edit, session, peer, view_params>>
    /\ IF NodeDataError(node_type, name) # ""
       THEN AddNodeRejected(NodeDataError(node_type, name))
       ELSE IF node_type = "company"
       THEN IF AccountExists(name)
            THEN AddNodeRejected("Company already exists")
            ELSE /\ CanInsertNode
                 /\ accounts' = Inserted_row(accounts, NewAccount(name, title_or_ticker))
                 /\ UNCHANGED contacts
                 /\ toast' = [Toast("Created successfully") EXCEPT !.term = node_type]
                 /\ load_data
       ELSE IF node_type = "person"
       THEN IF ContactExists(SplitFirstName(name), SplitLastName(name))
            THEN AddNodeRejected("Contact already exists")
            ELSE /\ CanInsertNode
                 /\ contacts' =
                       Inserted_row(contacts,
                                    NewContact(SplitFirstName(name), SplitLastName(name),
                                               title_or_ticker))
                 /\ UNCHANGED accounts
                 /\ toast' = [Toast("Created successfully") EXCEPT !.term = node_type]
                 /\ load_data
       ELSE AddNodeRejected("Invalid node type")

\* `"name" in updated_data and updated_data["name"]`
UpdatedIfTruthy(data, key, old) ==
    IF key \in DOMAIN data /\ data[key] # <<>> THEN data[key] ELSE old

update_node(node_id, node_type, updated_data) ==
    /\ UNCHANGED <<relationships, logs, selected_node_id, selected_edge_id, panel,
                   is_creating_relationship, creation, target_list, editing,
                   node_form, node_edit, session, peer, view_params>>
    /\ IF node_type = "company" /\ node_id \notin DOMAIN accounts
       THEN /\ toast' = Toast("Account not found")
            /\ UNCHANGED <<accounts, contacts, view>>
       ELSE IF node_type = "person" /\ node_id \notin DOMAIN contacts
       THEN /\ toast' = Toast("Contact not found")
            /\ UNCHANGED <<accounts, contacts, view>>
       ELSE /\ IF node_type = "company"
               THEN /\ accounts' =
                         [accounts EXCEPT ![node_id] =
                            [@ EXCEPT
                               !.name = UpdatedIfTruthy(updated_data, "name", @),
                               !.ticker = Updated(updated_data, "ticker", @)]]
                    /\ UNCHANGED contacts
               ELSE IF node_type = "person"
               THEN /\ contacts' =
                         [contacts EXCEPT ![node_id] =
                            [@ EXCEPT
                               !.first_name =
                                   UpdatedIfTruthy(updated_data, "first_name", @),
                               !.last_name = Updated(updated_data, "last_name", @),
                               !.job_title = Updated(updated_data, "job_title", @)]]
                    /\ UNCHANGED accounts
               ELSE UNCHANGED <<accounts, contacts>>
            /\ toast' = Toast("Node updated successfully")
            /\ load_data

(* ------------- handle_search, clear_search, set_node_limit ------------- *)

view_handler_frame ==
    UNCHANGED <<store, selected_node_id, selected_edge_id, panel,
                is_creating_relationship, creation, target_list, editing,
                node_form, node_edit, session, peer, zoom_level>>

toggle_historic(value) ==
    /\ show_historic' = value
    /\ toast' = NoToast
    /\ UNCHANGED <<search_query, node_limit>>
    /\ view_handler_frame
    /\ load_data

clear_search ==
    /\ search_query' = <<>>
    /\ toast' = NoToast
    /\ UNCHANGED <<node_limit, show_historic>>
    /\ view_handler_frame
    /\ load_data

handle_search(query) ==
    /\ search_query' = query
    /\ toast' = NoToast
    /\ UNCHANGED <<node_limit, show_historic>>
    /\ view_handler_frame
    /\ load_data

set_node_limit(limit) ==
    /\ node_limit' = limit
    /\ toast' = NoToast
    /\ UNCHANGED <<search_query, show_historic>>
    /\ view_handler_frame
    /\ load_data

ToggleHistoric == \E value \in BOOLEAN : toggle_historic(value)

HandleSearch == \E query \in SearchInputs : handle_search(query)

SetNodeLimit == \E limit \in LimitInputs : set_node_limit(limit)

(* --------------------- stores for the selection modes ------------------ *)

\* a Contact row with a one-letter first name
NamedContact(letter) ==
    [first_name |-> <<letter>>, last_name |-> <<"n">>,
     job_title |-> <<"c">>, account_id |-> None]

\* a stored friend link between two nodes
StoredRelationship(id, src, tgt) ==
    [id                |-> id,
     score             |-> TERM_DEFAULTS("friend").default_score,
     relationship_type |-> TERM_TO_TYPE("friend"),
     is_active         |-> TRUE,
     is_directed       |-> TERM_DEFAULTS("friend").is_directed,
     term              |-> "friend",
     source_type       |-> src[1],
     source_id         |-> src[2],
     target_type       |-> tgt[1],
     target_id         |-> tgt[2]]

\* company A linked to B, C and D, B linked to C, and E linked to nothing:
\* degrees A 3, B 2, C 2, D 1, E 0, first seen in that order
StarStore ==
    [accounts  |-> (1 :> [name |-> <<"A">>, ticker |-> <<"A">>]),
     contacts  |-> (1 :> NamedContact("B") @@ 2 :> NamedContact("C")
                    @@ 3 :> NamedContact("D") @@ 4 :> NamedContact("E")),
     relationships |->
        {StoredRelationship(1, <<"company", 1>>, <<"person", 1>>),
         StoredRelationship(2, <<"company", 1>>, <<"person", 2>>),
         StoredRelationship(3, <<"person", 1>>, <<"person", 2>>),
         StoredRelationship(4, <<"company", 1>>, <<"person", 3>>)}]

\* the chain X - Y - Z - W - V
ChainStore ==
    [accounts  |-> <<>>,
     contacts  |-> (1 :> NamedContact("X") @@ 2 :> NamedContact("Y")
                    @@ 3 :> NamedContact("Z") @@ 4 :> NamedContact("W")
                    @@ 5 :> NamedContact("V")),
     relationships |->
        {StoredRelationship(1, <<"person", 1>>, <<"person", 2>>),
         StoredRelationship(2, <<"person", 3>>, <<"person", 2>>),
         StoredRelationship(3, <<"person", 3>>, <<"person", 4>>),
         StoredRelationship(4, <<"person", 4>>, <<"person", 5>>)}]

SelectStores == {StarStore, ChainStore}

\* one of the stores, as the page's on_load load_data leaves the state
InitSelect ==
    /\ \E s \in SelectStores :
          /\ accounts = s.accounts
          /\ contacts = s.contacts
          /\ relationships = s.relationships
    /\ logs = <<>>
    /\ selected_node_id = EmptyStr
    /\ selected_edge_id = EmptyStr
    /\ show_side_panel = FALSE
    /\ edit_mode = "none"
    /\ node_create_mode = FALSE
    /\ is_creating_relationship = FALSE
    /\ creation_target_id = 0
    /\ creation_target_type = ""
    /\ creation_target_name = <<>>
    /\ creation_term = "friend"
    /\ creation_score = 0
    /\ relationship_target_search = <<>>
    /\ filtered_target_nodes = <<>>
    /\ editing_score = 0
    /\ editing_relationship_type = ""
    /\ editing_term = ""
    /\ editing_is_directed = TRUE
    /\ new_node_type = "person"
    /\ new_node_name = <<>>
    /\ new_node_last_name = <<>>
    /\ new_node_title_or_ticker = <<>>
    /\ is_editing = FALSE
    /\ editing_node_id = 0
    /\ editing_node_type = ""
    /\ editing_node_data = <<>>
    /\ session = NoSession
    /\ peer = NoSession
    /\ search_query = <<>>
    /\ node_limit = DefaultNodeLimit
    /\ show_historic = FALSE
    /\ zoom_level = DefaultZoom
    /\ \E sel \in SelectedNodeSets(accounts, contacts,
                                   CountedRels(relationships, show_historic),
                                   search_query, node_limit) :
          /\ filtered_accounts = SelectedAccounts(accounts, sel)
          /\ filtered_contacts = SelectedContacts(contacts, sel)
          /\ filtered_relationships =
                SelectedRelationships(CountedRels(relationships, show_historic), sel)
    /\ toast = NoToast

\* the search bar's controls, and soft delete to make rows historic
NextSelect ==
    \/ HandleSearch
    \/ clear_search
    \/ SetNodeLimit
    \/ ToggleHistoric
    \/ SoftDelete

SpecSelect == InitSelect /\ [][NextSelect]_vars

SetNewNodeType == \E value \in NodeTypeInputs : set_new_node_type(value)

SetNewNodeName == \E value \in NameInputs : set_new_node_name(value)

SetEditingNodeData == \E updates \in EditInputs : set_editing_node_data(updates)

AddNode ==
    \E node_type \in NodeTypeInputs, name \in NameInputs :
        add_node(node_type, name, <<>>)

UpdateNode ==
    \E n \in ExistingNodes, updated_data \in EditInputs :
        update_node(n[2], n[1], updated_data)

SearchNodes == \E query \in Queries : handle_search(query)

\* the node whose details the audit scenarios open before Add Connection
SourceClicks == {<<"person", 1>>}

ClickSource ==
    \E n \in SourceClicks \cap ExistingNodes : on_node_click(NodeFullId(n[1], n[2]))

\* every handler that writes Relationship or RelationshipLog rows, the panel's
\* creation path opened from one source node
NextAudit ==
    \/ ConnectDrag
    \/ UpdateScore
    \/ UpdateTerm
    \/ SoftDelete
    \/ DeleteNode
    \/ ClickSource
    \/ start_relationship_creation
    \/ SetCreationTarget
    \/ create_relationship_from_panel

SpecAudit == InitPeople /\ [][NextAudit]_vars

BeginScore ==
    \E id \in RelIdInputs, s \in ScoreInputs : begin_update_relationship_score(id, s)

BeginSoftDelete == \E id \in RelIdInputs : begin_soft_delete_relationship(id)

BeginTerm ==
    \E id \in RelIdInputs, t \in TermInputs : begin_update_relationship_term(id, t)

BeginReactivation ==
    \E d \in DragPairs :
        /\ d[1] \in ExistingNodes
        /\ d[2] \in ExistingNodes
        /\ begin_reactivation(d[1][1], d[1][2], d[2][1], d[2][2])

BeginDeleteNode == \E n \in ExistingNodes : begin_delete_node(n[2], n[1])

\* relationships are drawn while no session is open
DrawRelationship == session.handler = "none" /\ ConnectDrag

\* the lifecycle mutations, statement by statement, with a store that may fail
NextTxn ==
    \/ DrawRelationship
    \/ BeginScore
    \/ BeginSoftDelete
    \/ BeginTerm
    \/ BeginReactivation
    \/ BeginDeleteNode
    \/ session_write
    \/ session_commit
    \/ session_failure

SpecTxn == Init /\ [][NextTxn]_vars

PeerBeginReactivation ==
    \E d \in DragPairs :
        /\ d[1] \in ExistingNodes
        /\ d[2] \in ExistingNodes
        /\ peer_begin_reactivation(d[1][1], d[1][2], d[2][1], d[2][2])

\* a relationship is drawn between two nodes that have no row yet
DrawNew ==
    /\ session.handler = "none"
    /\ \E d \in DragPairs :
          /\ d[1] \in ExistingNodes
          /\ d[2] \in ExistingNodes
          /\ FindExisting(d[1][1], d[1][2], d[2][1], d[2][2]) = {}
          /\ on_connect(NodeFullId(d[1][1], d[1][2]), NodeFullId(d[2][1], d[2][2]))

\* a relationship is soft-deleted while no session is open
SoftDeleteIdle == session.handler = "none" /\ peer.handler = "none" /\ SoftDelete

\* two clients reactivate over one store, their lookups and writes interleaved
NextRace ==
    \/ DrawNew
    \/ SoftDeleteIdle
    \/ BeginReactivation
    \/ session_write
    \/ session_commit
    \/ PeerBeginReactivation
    \/ peer_write
    \/ peer_commit

SpecRace == Init /\ [][NextRace]_vars

\* the node forms hold what the page loads them with
FormsUnused ==
    /\ ~node_create_mode
    /\ ~is_editing
    /\ new_node_type = "person"
    /\ new_node_name = <<>>
    /\ editing_node_id = 0
    /\ editing_node_data = <<>>

\* the bounds of the refresh scenarios: relationships are written while the
\* node forms are unused and the store holds its two initial contacts
RelationshipsWritable ==
    /\ FormsUnused
    /\ DOMAIN accounts = {}
    /\ DOMAIN contacts = {1, 2}
    /\ contacts[1].first_name = <<"B">>
    /\ contacts[2].first_name = <<"T">>

\* ... and nodes are written while the store holds no relationship
NodesWritable == relationships = {}

\* every handler that writes the store, with the search box and the node forms
NextRefresh ==
    \/ RelationshipsWritable /\ ConnectDrag
    \/ RelationshipsWritable /\ UpdateScore
    \/ RelationshipsWritable /\ UpdateTerm
    \/ RelationshipsWritable /\ SoftDelete
    \/ RelationshipsWritable /\ start_relationship_creation
    \/ RelationshipsWritable /\ SetCreationTarget
    \/ RelationshipsWritable /\ create_relationship_from_panel
    \/ NodesWritable /\ DeleteNode
    \/ NodesWritable /\ start_node_creation
    \/ NodesWritable /\ SetNewNodeType
    \/ NodesWritable /\ SetNewNodeName
    \/ NodesWritable /\ prepare_node_edit
    \/ NodesWritable /\ SetEditingNodeData
    \/ NodesWritable /\ save_node
    \/ NodesWritable /\ AddNode
    \/ NodesWritable /\ UpdateNode
    \/ ClickSource
    \/ SearchNodes

SpecRefresh == InitPeople /\ [][NextRefresh]_vars

(* ------------------ the edge panel and its handlers -------------------- *)

\* str.startswith(prefix + "-")
StartsWith(id_str, prefix) == Len(id_str) >= 2 /\ id_str[1] = prefix

\* data.get(key, default)
DataGet(data, key, default) == IF key \in DOMAIN data THEN data[key] ELSE default

on_edge_click(edge) ==
    /\ selected_edge_id' = edge.id
    /\ editing_score' = DataGet(edge.data, "score", 0)
    /\ node_create_mode' = FALSE
    /\ IF StartsWith(edge.id, "rel")
       THEN /\ editing_relationship_type' = DataGet(edge.data, "type", "employment")
            /\ editing_term' = DataGet(edge.data, "term", "works_for")
            /\ editing_is_directed' = DataGet(edge.data, "is_directed", TRUE)
            /\ edit_mode' = "edge"
            /\ show_side_panel' = TRUE
       ELSE IF StartsWith(edge.id, "emp")
       THEN /\ editing_relationship_type' = "employment"
            /\ editing_term' = "works_for"
            /\ editing_is_directed' = TRUE
            /\ edit_mode' = "edge"
            /\ show_side_panel' = TRUE
       ELSE /\ editing_relationship_type' = DataGet(edge.data, "type", "employment")
            /\ editing_term' = DataGet(edge.data, "term", "works_for")
            /\ editing_is_directed' = DataGet(edge.data, "is_directed", TRUE)
            /\ edit_mode' = "none"
            /\ show_side_panel' = FALSE
    /\ toast' = NoToast
    /\ UNCHANGED <<store, selected_node_id, is_creating_relationship, creation,
                   target_list, node_form, node_edit, session, peer, view,
                   view_params>>

\* side_panel shows edge_edit_view
EdgeViewShown ==
    /\ show_side_panel
    /\ ~node_create_mode
    /\ ~is_creating_relationship
    /\ edit_mode = "edge"

\* the Delete Relationship button of edge_edit_view:
\* soft_delete_relationship(selected_edge_id.split("-")[1].to(int))
delete_relationship_button ==
    /\ EdgeViewShown
    /\ Len(selected_edge_id) >= 2
    /\ IsIntStr(selected_edge_id[2])
    /\ soft_delete_relationship(ParseInt(selected_edge_id[2]))

set_editing_score(value) ==
    /\ editing_score' = value
    /\ toast' = NoToast
    /\ UNCHANGED <<store, selected_node_id, selected_edge_id, panel,
                   is_creating_relationship, creation, target_list,
                   editing_relationship_type, editing_term, editing_is_directed,
                   node_form, node_edit, session, peer, view, view_params>>

\* a handler whose body changes no state var
no_effect ==
    /\ toast' = NoToast
    /\ UNCHANGED <<store, selected_node_id, selected_edge_id, panel,
                   is_creating_relationship, creation, target_list, editing,
                   node_form, node_edit, session, peer, view, view_params>>

\* save_relationship_update calls self.update_relationship_score(...), a
\* generator function: the call builds a generator that is never run
save_relationship_update ==
    IF StartsWith(selected_edge_id, "rel") /\ IsIntStr(selected_edge_id[2])
    THEN no_effect
    ELSE no_effect

\* handle_term_change calls self.update_relationship_term(...), a generator
\* function as well
handle_term_change(new_term) ==
    IF StartsWith(selected_edge_id, "rel") /\ IsIntStr(selected_edge_id[2])
    THEN no_effect
    ELSE no_effect

\* delete_current_selection: the handler it returns runs next
delete_current_selection ==
    IF /\ edit_mode = "node"
       /\ selected_node_id # EmptyStr
       /\ ~IsIntId(selected_node_id)
       /\ Len(selected_node_id) >= 2
       /\ IsIntStr(selected_node_id[2])
    THEN delete_node(ParseInt(selected_node_id[2]), PrefixType(selected_node_id[1]))
    ELSE IF /\ edit_mode # "node" \/ selected_node_id = EmptyStr
            /\ edit_mode = "edge"
            /\ selected_edge_id # EmptyStr
            /\ StartsWith(selected_edge_id, "rel")
            /\ IsIntStr(selected_edge_id[2])
    THEN soft_delete_relationship(ParseInt(selected_edge_id[2]))
    ELSE /\ toast' = Toast("Nothing selected to delete")
         /\ UNCHANGED <<store, selected_node_id, selected_edge_id, panel,
                        is_creating_relationship, creation, target_list, editing,
                        node_form, node_edit, session, peer, view, view_params>>

(* --------------------------- the rendered graph ------------------------ *)

\* the values of zoom_level graph_data is evaluated at, around its thresholds
\* (the flow component zooms between 0.1 and 4.0)
ZoomInputs == {10, 39, 40, 49, 50, 59, 60, 100, 400}

\* the scores of the stored friend link: the ends and the middle of the
\* gradient, and scores beyond the range the sliders offer
ColorScores == {-200, -101, -100, 0, 100, 101, 200}

\* a Contact row employed by an Account
EmployedContact(letter, account_id) ==
    [NamedContact(letter) EXCEPT !.account_id = account_id]

\* a stored link of a given term and score
TermedRelationship(id, src, tgt, term, score) ==
    [StoredRelationship(id, src, tgt) EXCEPT
        !.term = term,
        !.relationship_type = TERM_TO_TYPE(term),
        !.is_directed = TERM_DEFAULTS(term).is_directed,
        !.score = score]

\* companies A and C; B works at C, T at A, D at neither; a friend link of the
\* given score, a competitor link and an explicit works_for link
RenderStore(score) ==
    [accounts  |-> (1 :> [name |-> <<"A">>, ticker |-> <<"A">>]
                    @@ 2 :> [name |-> <<"C">>, ticker |-> <<"C">>]),
     contacts  |-> (1 :> EmployedContact("B", 2) @@ 2 :> EmployedContact("T", 1)
                    @@ 3 :> NamedContact("D")),
     relationships |->
        {TermedRelationship(1, <<"person", 1>>, <<"person", 3>>, "friend", score),
         TermedRelationship(2, <<"company", 1>>, <<"company", 2>>, "competitor", -50),
         TermedRelationship(3, <<"person", 2>>, <<"company", 2>>, "works_for", 0)}]

\* the render store as the page's on_load load_data leaves the state, at one of
\* the zoom levels
InitRender ==
    /\ \E score \in ColorScores :
          /\ accounts = RenderStore(score).accounts
          /\ contacts = RenderStore(score).contacts
          /\ relationships = RenderStore(score).relationships
    /\ zoom_level \in ZoomInputs
    /\ logs = <<>>
    /\ selected_node_id = EmptyStr
    /\ selected_edge_id = EmptyStr
    /\ show_side_panel = FALSE
    /\ edit_mode = "none"
    /\ node_create_mode = FALSE
    /\ is_creating_relationship = FALSE
    /\ creation_target_id = 0
    /\ creation_target_type = ""
    /\ creation_target_name = <<>>
    /\ creation_term = "friend"
    /\ creation_score = 0
    /\ relationship_target_search = <<>>
    /\ filtered_target_nodes = <<>>
    /\ editing_score = 0
    /\ editing_relationship_type = ""
    /\ editing_term = ""
    /\ editing_is_directed = TRUE
    /\ new_node_type = "person"
    /\ new_node_name = <<>>
    /\ new_node_last_name = <<>>
    /\ new_node_title_or_ticker = <<>>
    /\ is_editing = FALSE
    /\ editing_node_id = 0
    /\ editing_node_type = ""
    /\ editing_node_data = <<>>
    /\ session = NoSession
    /\ peer = NoSession
    /\ search_query = <<>>
    /\ node_limit = DefaultNodeLimit
    /\ show_historic = FALSE
    /\ \E sel \in SelectedNodeSets(accounts, contacts,
                                   CountedRels(relationships, show_historic),
                                   search_query, node_limit) :
          /\ filtered_accounts = SelectedAccounts(accounts, sel)
          /\ filtered_contacts = SelectedContacts(contacts, sel)
          /\ filtered_relationships =
                SelectedRelationships(CountedRels(relationships, show_historic), sel)
    /\ toast = NoToast

\* an edge of the drawn graph is clicked
EdgeClick == \E i \in DOMAIN graph_data.edges : on_edge_click(graph_data.edges[i])

SetEditingScore == \E value \in ScoreInputs : set_editing_score(value)

HandleTermChange == \E new_term \in TermInputs : handle_term_change(new_term)

\* the graph, the edge panel and the deletion controls
NextRender ==
    \/ EdgeClick
    \/ delete_relationship_button
    \/ delete_current_selection
    \/ save_relationship_update
    \/ HandleTermChange
    \/ SetEditingScore
    \/ ToggleHistoric
    \/ close_panel

SpecRender == InitRender /\ [][NextRender]_vars

(* ------------------- connections with malformed ends ------------------- *)

\* node references that are not acc-<integer> or con-<integer>: an edge id, an
\* unknown prefix, an extra segment, a missing and a non-numeric id, no dash
MalformedRefs ==
    {<<"emp", "1", "2">>, <<"rel", "1">>, <<"xyz", "2">>, <<"con", "1", "9">>,
     <<"con", "">>, <<"con", "x">>, <<"con">>, <<"">>}

\* a drag-connect whose source or target is one of them
ConnectMalformed ==
    \E m \in MalformedRefs, n \in ExistingNodes :
        \/ on_connect(m, NodeFullId(n[1], n[2]))
        \/ on_connect(NodeFullId(n[1], n[2]), m)

\* connections on the two-person store
NextConnect ==
    \/ Connect
    \/ ConnectMalformed
    \/ SoftDelete
    \/ close_panel

SpecConnect == InitPeople /\ [][NextConnect]_vars

(* ------------------- the node forms and their names -------------------- *)

\* the texts typed into the name field of the creation form and passed to
\* add_node: nothing, a blank, the lower-cased names of the stored person and
\* company, the person's full name
FormNames == {<<>>, <<" ">>, <<"b">>, <<"w">>, <<"b", " ", "w">>}

\* the texts typed into the last-name field
FormLastNames == {<<>>, <<"w">>}

\* the changes the edit form and update_node's callers send: a first name
\* emptied, a name blanked
FormEdits == {("first_name" :> <<>>), ("name" :> <<" ">>)}

\* the empty and the whitespace-only name
BlankNames == {<<>>, <<" ">>}

\* the company W, its employee B W and a stored link between them, as the
\* page's on_load load_data leaves the state
InitForms ==
    /\ accounts = (1 :> [name |-> <<"W">>, ticker |-> <<>>])
    /\ contacts = (1 :> [first_name |-> <<"B">>, last_name |-> <<"W">>,
                         job_title |-> <<"c">>, account_id |-> 1])
    /\ relationships = {StoredRelationship(1, <<"person", 1>>, <<"company", 1>>)}
    /\ logs = <<>>
    /\ selected_node_id = EmptyStr
    /\ selected_edge_id = EmptyStr
    /\ show_side_panel = FALSE
    /\ edit_mode = "none"
    /\ node_create_mode = FALSE
    /\ is_creating_relationship = FALSE
    /\ creation_target_id = 0
    /\ creation_target_type = ""
    /\ creation_target_name = <<>>
    /\ creation_term = "friend"
    /\ creation_score = 0
    /\ relationship_target_search = <<>>
    /\ filtered_target_nodes = <<>>
    /\ editing_score = 0
    /\ editing_relationship_type = ""
    /\ editing_term = ""
    /\ editing_is_directed = TRUE
    /\ new_node_type = "person"
    /\ new_node_name = <<>>
    /\ new_node_last_name = <<>>
    /\ new_node_title_or_ticker = <<>>
    /\ is_editing = FALSE
    /\ editing_node_id = 0
    /\ editing_node_type = ""
    /\ editing_node_data = <<>>
    /\ session = NoSession
    /\ peer = NoSession
    /\ search_query = <<>>
    /\ node_limit = DefaultNodeLimit
    /\ show_historic = FALSE
    /\ zoom_level = DefaultZoom
    /\ \E sel \in SelectedNodeSets(accounts, contacts,
                                   CountedRels(relationships, show_historic),
                                   search_query, node_limit) :
          /\ filtered_accounts = SelectedAccounts(accounts, sel)
          /\ filtered_contacts = SelectedContacts(contacts, sel)
          /\ filtered_relationships =
                SelectedRelationships(CountedRels(relationships, show_historic), sel)
    /\ toast = NoToast

SetFormName == \E value \in FormNames : set_new_node_name(value)

SetFormLastName == \E value \in FormLastNames : set_new_node_last_name(value)

SetFormEdit == \E updates \in FormEdits : set_editing_node_data(updates)

AddFormNode ==
    \E node_type \in NodeTypeInputs, name \in FormNames :
        add_node(node_type, name, <<>>)

UpdateFormNode ==
    \E n \in ExistingNodes, updated_data \in FormEdits :
        update_node(n[2], n[1], updated_data)

SetBlankName == \E value \in BlankNames : set_new_node_name(value)

AddBlankNode ==
    \E node_type \in NodeTypeInputs, name \in BlankNames :
        add_node(node_type, name, <<>>)

\* the creation form and add_node, with every name of FormNames
NextCreate ==
    \/ start_node_creation
    \/ SetNewNodeType
    \/ SetFormName
    \/ SetFormLastName
    \/ save_node
    \/ AddFormNode

SpecCreate == InitForms /\ [][NextCreate]_vars

\* saves of blank names: the creation form and add_node with the names of
\* BlankNames, the edit form and update_node with the changes of FormEdits
NextForms ==
    \/ start_node_creation
    \/ SetNewNodeType
    \/ SetBlankName
    \/ AddBlankNode
    \/ NodeClick
    \/ prepare_node_edit
    \/ SetFormEdit
    \/ save_node
    \/ UpdateFormNode

SpecForms == InitForms /\ [][NextForms]_vars

(* ------------------------ the side panel's views ----------------------- *)

\* side_panel: the rx.cond of each of the five views
NodeCreationView == node_create_mode

RelationshipCreationView == ~node_create_mode /\ is_creating_relationship

NodeEditView ==
    /\ ~node_create_mode
    /\ ~is_creating_relationship
    /\ edit_mode = "node"
    /\ is_editing

NodeDetailsView ==
    /\ ~node_create_mode
    /\ ~is_creating_relationship
    /\ edit_mode = "node"
    /\ ~is_editing

EdgeEditView ==
    /\ ~node_create_mode
    /\ ~is_creating_relationship
    /\ edit_mode = "edge"

\* the views side_panel renders in the current state
ViewsDisplayed ==
    {v \in {"create node", "create relationship", "edit node", "node details",
            "edit edge"} :
        \/ v = "create node" /\ NodeCreationView
        \/ v = "create relationship" /\ RelationshipCreationView
        \/ v = "edit node" /\ NodeEditView
        \/ v = "node details" /\ NodeDetailsView
        \/ v = "edit edge" /\ EdgeEditView}

\* the Cancel button of node_creation_view
cancel_node_creation ==
    /\ UNCHANGED <<session, peer>>
    /\ show_side_panel /\ NodeCreationView
    /\ node_create_mode' = FALSE
    /\ new_node_name' = <<>>
    /\ new_node_last_name' = <<>>
    /\ new_node_title_or_ticker' = <<>>
    /\ toast' = NoToast
    /\ UNCHANGED <<store, selected_node_id, selected_edge_id, show_side_panel,
                   edit_mode, is_creating_relationship, creation, target_list,
                   editing, new_node_type, node_edit, view, view_params>>

\* the Cancel button of node_edit_view
cancel_edit ==
    /\ UNCHANGED <<session, peer>>
    /\ show_side_panel /\ NodeEditView
    /\ is_editing' = FALSE
    /\ is_creating_relationship' = FALSE
    /\ editing_node_data' = <<>>
    /\ relationship_target_search' = <<>>
    /\ filtered_target_nodes' = <<>>
    /\ toast' = NoToast
    /\ UNCHANGED <<store, selected_node_id, selected_edge_id, panel, creation,
                   editing, node_form, editing_node_id, editing_node_type,
                   view, view_params>>

\* the highest id the Contact table assigns in the panel scenarios: a person
\* is created once the table is empty again
MaxContactId == 1

ContactIdsLeft == NextRowId(contacts) <= MaxContactId

\* the panel events: selections, the create and cancel controls, saves and
\* deletions, on the company W and its employee B W; names are typed into
\* the creation form while ContactIdsLeft
NextModes ==
    \/ NodeClick
    \/ EdgeClick
    \/ start_node_creation
    \/ ContactIdsLeft /\ SetNewNodeName
    \/ cancel_node_creation
    \/ start_relationship_creation
    \/ cancel_relationship_creation
    \/ prepare_node_edit
    \/ cancel_edit
    \/ save_node
    \/ delete_current_selection
    \/ close_panel

SpecModes == InitForms /\ [][NextModes]_vars

(* -------------------- the source of a new connection ------------------- *)

\* the Add Link button of node_details_view: it has no disabled condition
add_link_button ==
    /\ show_side_panel
    /\ NodeDetailsView
    /\ start_relationship_creation_effect

\* the Save Changes button of node_edit_view
save_changes_button ==
    /\ show_side_panel
    /\ NodeEditView
    /\ save_node

\* the Delete button of the search bar, shown while the panel is open
delete_button ==
    /\ show_side_panel
    /\ delete_current_selection

\* selecting, editing, deleting and connecting nodes through the controls the
\* page displays
NextSource ==
    \/ NodeClick
    \/ Connect
    \/ prepare_node_edit
    \/ save_changes_button
    \/ delete_button
    \/ start_relationship_creation
    \/ add_link_button
    \/ SetCreationTarget
    \/ create_relationship_from_panel
    \/ cancel_relationship_creation
    \/ close_panel

SpecSource == InitPeople /\ [][NextSource]_vars

(* ------------------------- seeding an empty store ---------------------- *)

\* seed_database's rows, with the ids an empty store assigns them
SeedAccounts ==
    1 :> [name |-> <<"A", "c", "m", "e", " ", "C", "o", "r", "p">>, ticker |-> <<"A", "C", "M", "E">>]
    @@ 2 :> [name |-> <<"S", "t", "a", "r", "k", " ", "I", "n", "d">>, ticker |-> <<"S", "T", "R", "K">>]
    @@ 3 :> [name |-> <<"W", "a", "y", "n", "e", " ", "E", "n", "t">>, ticker |-> <<"W", "A", "Y", "N">>]

SeedContacts ==
    1 :> [first_name |-> <<"W", "i", "l", "e", " ", "E", ".">>, last_name |-> <<"C", "o", "y", "o", "t", "e">>, job_title |-> <<"G", "e", "n", "i", "u", "s">>,
          account_id |-> 1]
    @@ 2 :> [first_name |-> <<"T", "o", "n", "y">>, last_name |-> <<"S", "t", "a", "r", "k">>, job_title |-> <<"C", "E", "O">>,
             account_id |-> 2]
    @@ 3 :> [first_name |-> <<"P", "e", "p", "p", "e", "r">>, last_name |-> <<"P", "o", "t", "t", "s">>, job_title |-> <<"C", "E", "O">>,
             account_id |-> 2]
    @@ 4 :> [first_name |-> <<"B", "r", "u", "c", "e">>, last_name |-> <<"W", "a", "y", "n", "e">>, job_title |-> <<"C", "h", "a", "i", "r", "m", "a", "n">>,
             account_id |-> 3]

\* Relationship(...) as seed_database writes it: every field is given
SeedRelationship(id, score, rel_type, term, is_directed, src, tgt) ==
    [id                |-> id,
     score             |-> score,
     relationship_type |-> rel_type,
     is_active         |-> TRUE,
     is_directed       |-> is_directed,
     term              |-> term,
     source_type       |-> src[1],
     source_id         |-> src[2],
     target_type       |-> tgt[1],
     target_id         |-> tgt[2]]

\* rel_social, rel_biz, rel_social2, rel_invest
SeedRelationships ==
    {SeedRelationship(1, 20, "social", "colleague", FALSE,
                      <<"person", 2>>, <<"person", 4>>),
     SeedRelationship(2, -50, "business", "competitor", FALSE,
                      <<"company", 2>>, <<"company", 3>>),
     SeedRelationship(3, 80, "social", "friend", FALSE,
                      <<"person", 3>>, <<"person", 2>>),
     SeedRelationship(4, 50, "business", "invested_in", TRUE,
                      <<"company", 3>>, <<"company", 1>>)}

\* the page's on_load before any row is stored
InitEmpty ==
    /\ accounts = <<>>
    /\ contacts = <<>>
    /\ relationships = {}
    /\ logs = <<>>
    /\ selected_node_id = EmptyStr
    /\ selected_edge_id = EmptyStr
    /\ show_side_panel = FALSE
    /\ edit_mode = "none"
    /\ node_create_mode = FALSE
    /\ is_creating_relationship = FALSE
    /\ creation_target_id = 0
    /\ creation_target_type = ""
    /\ creation_target_name = <<>>
    /\ creation_term = "friend"
    /\ creation_score = 0
    /\ relationship_target_search = <<>>
    /\ filtered_target_nodes = <<>>
    /\ editing_score = 0
    /\ editing_relationship_type = ""
    /\ editing_term = ""
    /\ editing_is_directed = TRUE
    /\ new_node_type = "person"
    /\ new_node_name = <<>>
    /\ new_node_last_name = <<>>
    /\ new_node_title_or_ticker = <<>>
    /\ is_editing = FALSE
    /\ editing_node_id = 0
    /\ editing_node_type = ""
    /\ editing_node_data = <<>>
    /\ session = NoSession
    /\ peer = NoSession
    /\ filtered_accounts = <<>>
    /\ filtered_contacts = <<>>
    /\ filtered_relationships = {}
    /\ search_query = <<>>
    /\ node_limit = DefaultNodeLimit
    /\ show_historic = FALSE
    /\ zoom_level = DefaultZoom
    /\ toast = NoToast

\* load_data on a store without Account and Contact rows: seed_database, then
\* the selection
load_data_seeding ==
    /\ ~Seeded(accounts, contacts)
    /\ accounts' = SeedAccounts
    /\ contacts' = SeedContacts
    /\ relationships' = SeedRelationships
    /\ UNCHANGED logs
    /\ toast' = NoToast
    /\ UNCHANGED <<selected_node_id, selected_edge_id, panel,
                   is_creating_relationship, creation, target_list, editing,
                   node_form, node_edit, session, peer, view_params>>
    /\ load_data

\* the first page load and the handlers that write Relationship rows
NextSeed ==
    \/ load_data_seeding
    \/ Connect
    \/ UpdateScore
    \/ UpdateTerm
    \/ SoftDelete

SpecSeed == InitEmpty /\ [][NextSeed]_vars

(* ====================================================================== *)
(* Properties                                                              *)
(* ====================================================================== *)

\* the node references of a row
SourceOf(r) == <<r.source_type, r.source_id>>

TargetOf(r) == <<r.target_type, r.target_id>>

\* the node reference a well-formed node id string denotes
RefOf(str) == <<PrefixType(str[1]), ParseInt(str[2])>>

\* the id strings of the store's nodes
NodeStrings == {NodeFullId(n[1], n[2]) : n \in ExistingNodes}

\* the rows stored from source to target, in that order
RowsFromTo(src, tgt) ==
    {r \in relationships : SourceOf(r) = src /\ TargetOf(r) = tgt}

\* the row of the given id after the step
RowAfter(id) == CHOOSE r \in relationships' : r.id = id

SameIds == {r.id : r \in relationships'} = {r.id : r \in relationships}

\* the step appended exactly one log entry, for row `id` with tag `action`
AppendedOneFor(id, action) ==
    /\ Len(logs') = Len(logs) + 1
    /\ SubSeq(logs', 1, Len(logs)) = logs
    /\ logs'[Len(logs')].relationship_id = id
    /\ logs'[Len(logs')].action = action

\* the source the panel's Confirm Connection uses
PanelSource == RefOf(selected_node_id)

PanelTarget == <<creation_target_type, creation_target_id>>

PanelWellFormed ==
    /\ selected_node_id # EmptyStr
    /\ Len(selected_node_id) >= 2
    /\ IsIntStr(selected_node_id[2])
    /\ creation_target_id # 0

(* ---------------------------------------------------------------------- *)
\* C1: at most one Relationship row per unordered pair of endpoints: a
\* create-or-reactivate for (B, A) while a row for (A, B) exists never
\* inserts a second row.
C1_UnorderedPairUnique ==
    \A r1 \in relationships, r2 \in relationships :
        {SourceOf(r1), TargetOf(r1)} = {SourceOf(r2), TargetOf(r2)} => r1 = r2

(* ---------------------------------------------------------------------- *)
\* what a reactivation of the row `e` must leave: the same rows, `e` active
\* with its endpoints, and one more log entry tagged `action` for it
C2_Restored(e, action) ==
    /\ SameIds
    /\ Cardinality(relationships') = Cardinality(relationships)
    /\ RowAfter(e.id).is_active
    /\ SourceOf(RowAfter(e.id)) = SourceOf(e)
    /\ TargetOf(RowAfter(e.id)) = TargetOf(e)
    /\ \A r \in relationships : r.id # e.id => r \in relationships'
    /\ AppendedOneFor(e.id, action)

C2_Connect ==
    \A s \in NodeStrings, t \in NodeStrings :
        \A e \in RowsFromTo(RefOf(s), RefOf(t)) :
            (on_connect(s, t) /\ ~e.is_active) => C2_Restored(e, "reactivate")

C2_Panel ==
    PanelWellFormed =>
        \A e \in RowsFromTo(PanelSource, PanelTarget) :
            (create_relationship_from_panel /\ ~e.is_active)
                => C2_Restored(e, "reactivate_panel")

\* C2: a create-or-reactivate on the source and target of a soft-deleted
\* relationship sets is_active on the existing row, inserts no row, and
\* appends exactly one log entry, tagged reactivate (reactivate_panel from
\* the side panel).
C2_ReactivationRestores == [][C2_Connect /\ C2_Panel]_vars

(* ---------------------------------------------------------------------- *)
\* the row carries the term T with its derived type and directedness, and
\* the given score
C3_Carries(r, T, score) ==
    /\ r.term = T
    /\ r.relationship_type = TERM_TO_TYPE(T)
    /\ r.is_directed = TERM_DEFAULTS(T).is_directed
    /\ r.score = score

C3_Connect ==
    \A s \in NodeStrings, t \in NodeStrings :
        \A e \in RowsFromTo(RefOf(s), RefOf(t)) :
            (on_connect(s, t) /\ ~e.is_active) =>
                LET T == ConnectDefaults(RefOf(s)[1], RefOf(t)[1]).default_term
                IN  C3_Carries(RowAfter(e.id), T, TERM_DEFAULTS(T).default_score)

C3_Panel ==
    PanelWellFormed =>
        \A e \in RowsFromTo(PanelSource, PanelTarget) :
            (create_relationship_from_panel /\ ~e.is_active) =>
                C3_Carries(RowAfter(e.id), creation_term, creation_score)

\* C3: a reactivation that requests term T leaves the row with term T,
\* TERM_TO_TYPE[T], TERM_DEFAULTS[T].is_directed and T's default score (or
\* the panel's score), whatever the row held before the soft delete.
C3_ReactivationAppliesTerm == [][C3_Connect /\ C3_Panel]_vars

(* ---------------------------------------------------------------------- *)
C4_Rejected ==
    /\ toast' = Toast("Relationship already exists")
    /\ relationships' = relationships
    /\ logs' = logs

C4_Connect ==
    \A s \in NodeStrings, t \in NodeStrings :
        (on_connect(s, t) /\ \E e \in RowsFromTo(RefOf(s), RefOf(t)) : e.is_active)
            => C4_Rejected

C4_Panel ==
    PanelWellFormed =>
        ((create_relationship_from_panel
            /\ \E e \in RowsFromTo(PanelSource, PanelTarget) : e.is_active)
                => C4_Rejected)

\* C4: when an active relationship exists from the source to the target,
\* on_connect and create_relationship_from_panel end with the "Relationship
\* already exists" rejection and leave both tables as they were.
C4_DuplicateWritesNothing == [][C4_Connect /\ C4_Panel]_vars

(* ---------------------------------------------------------------------- *)
\* the rows other than `id` are the same before and after the step
OthersKept(id) ==
    {r \in relationships : r.id # id} = {r \in relationships' : r.id # id}

\* the last entry of the log
LastLog == logs[Len(logs)]

LastLogAfter == logs'[Len(logs')]

C5_Step(id, T) ==
    \A e \in GetRel(id) :
        update_relationship_term(id, T) =>
            /\ SameIds
            /\ OthersKept(id)
            /\ RowAfter(id).term = T
            /\ RowAfter(id).relationship_type = TERM_TO_TYPE(T)
            /\ RowAfter(id).is_directed = TERM_DEFAULTS(T).is_directed
            /\ RowAfter(id).score = TERM_DEFAULTS(T).default_score
            /\ RowAfter(id).is_active = e.is_active
            /\ SourceOf(RowAfter(id)) = SourceOf(e)
            /\ TargetOf(RowAfter(id)) = TargetOf(e)

\* C5: update_relationship_term(id, T) on an existing relationship leaves it
\* with term T, TERM_TO_TYPE[T], TERM_DEFAULTS[T].is_directed and T's default
\* score, whatever score and directedness it had (also when T is its current
\* term), and changes neither is_active nor the endpoints.
C5_TermChangeResets ==
    [][\A id \in RelIdInputs, T \in RelationshipTerm : C5_Step(id, T)]_vars

\* a term change to the row's current term has reset a score that differed
\* from the term's default
C5_Witness ==
    /\ logs # <<>>
    /\ LastLog.action = "term_change"
    /\ LastLog.previous_term = LastLog.new_term
    /\ LastLog.previous_score # LastLog.new_score
    /\ \E r \in relationships :
          /\ r.id = LastLog.relationship_id
          /\ r.term = LastLog.new_term
          /\ r.score = TERM_DEFAULTS(r.term).default_score

(* ---------------------------------------------------------------------- *)
C6_Step(id, s) ==
    \A e \in GetRel(id) :
        update_relationship_score(id, s) =>
            /\ SameIds
            /\ OthersKept(id)
            /\ RowAfter(id) = [e EXCEPT !.score = s]
            /\ AppendedOneFor(id, "score_change")
            /\ LastLogAfter.previous_score = e.score
            /\ LastLogAfter.new_score = s

\* C6: update_relationship_score(id, s) on an existing relationship sets its
\* score to s and appends exactly one log entry, tagged score_change, with
\* previous_score the score before the call and new_score s; term, type,
\* is_directed, is_active and endpoints are unchanged.
C6_ScoreUpdate ==
    [][\A id \in RelIdInputs, s \in ScoreInputs : C6_Step(id, s)]_vars

\* a score was changed to a different value
C6_Witness ==
    /\ logs # <<>>
    /\ LastLog.action = "score_change"
    /\ LastLog.previous_score # LastLog.new_score
    /\ \E r \in relationships :
          r.id = LastLog.relationship_id /\ r.score = LastLog.new_score

(* ---------------------------------------------------------------------- *)
C7_Step(id) ==
    \A e \in GetRel(id) :
        soft_delete_relationship(id) =>
            /\ SameIds
            /\ OthersKept(id)
            /\ RowAfter(id) = [e EXCEPT !.is_active = FALSE]
            /\ AppendedOneFor(id, "soft_delete")
            /\ LastLogAfter.previous_score = e.score
            /\ LastLogAfter.new_score = 0

\* C7: soft_delete_relationship(id) on an existing relationship sets
\* is_active to false, keeps the row with its score, term, type, is_directed
\* and endpoints, and appends one log entry, tagged soft_delete, with
\* previous_score the row's score and new_score 0.
C7_SoftDeleteKeepsRow == [][\A id \in RelIdInputs : C7_Step(id)]_vars

\* a relationship with a non-zero score was soft-deleted and is still stored
C7_Witness ==
    /\ logs # <<>>
    /\ LastLog.action = "soft_delete"
    /\ LastLog.previous_score # 0
    /\ \E r \in relationships :
          /\ r.id = LastLog.relationship_id
          /\ ~r.is_active
          /\ r.score = LastLog.previous_score

(* ---------------------------------------------------------------------- *)
\* the entity (type, id) is in the store
EntityExists(type, id) ==
    \/ type = "company" /\ id \in DOMAIN accounts
    \/ type = "person" /\ id \in DOMAIN contacts

C8_Step(n) ==
    delete_node(n[2], n[1]) =>
        LET removed == {r.id : r \in relationships} \ {r.id : r \in relationships'}
        IN  /\ \A r \in relationships' : SourceOf(r) # n /\ TargetOf(r) # n
            /\ \A i \in 1..Len(logs') : logs'[i].relationship_id \notin removed
            /\ ~EntityExists(n[1], n[2])'
            /\ toast'.count = Cardinality(relationships \ relationships')

\* C8: after delete_node(id, type) the store holds no Relationship, active or
\* not, with the node as source or target, no log entry of a removed
\* relationship, and no entity (type, id); the reported count is the number of
\* Relationship rows removed.
C8_HardDeleteCascade == [][\A n \in ExistingNodes : C8_Step(n)]_vars

\* a node was deleted together with two relationships, one that had it as
\* source and one that had it as target
C8_Witness ==
    /\ toast.msg = "Deleted node and relationships"
    /\ toast.count = 2
    /\ relationships = {}
    /\ Cardinality(DOMAIN accounts) + Cardinality(DOMAIN contacts) = 2

(* ---------------------------------------------------------------------- *)
C9_Step(id) ==
    delete_node(id, "company") =>
        /\ DOMAIN contacts' = DOMAIN contacts
        /\ \A c \in DOMAIN contacts :
              contacts'[c] = IF contacts[c].account_id = id
                             THEN [contacts[c] EXCEPT !.account_id = None]
                             ELSE contacts[c]
        /\ \A c \in DOMAIN contacts' : contacts'[c].account_id # id

\* C9: after delete_node(id, "company") every Contact that existed before
\* still exists, those whose account_id was id have it cleared, and no
\* Contact has account_id = id.
C9_CompanyDeleteDetaches == [][\A id \in DOMAIN accounts : C9_Step(id)]_vars

\* the company was deleted and the contact that was linked to it is kept,
\* detached
C9_Witness ==
    /\ DOMAIN accounts = {}
    /\ DOMAIN contacts = {1, 2}
    /\ contacts[1].account_id = None

(* ---------------------------------------------------------------------- *)
\* C10: no Relationship is stored whose source and target are the same node,
\* whatever the sequence of node clicks, start_relationship_creation,
\* set_creation_target, create_relationship_from_panel and on_connect.
C10_NoSelfLoop ==
    \A r \in relationships : SourceOf(r) # TargetOf(r)

(* ---------------------------------------------------------------------- *)
\* the step is a delete_node call
IsDeleteNodeStep == \E n \in ExistingNodes : delete_node(n[2], n[1])

\* every entry of the log is still there, unchanged and in place
LogKept == Len(logs') >= Len(logs) /\ SubSeq(logs', 1, Len(logs)) = logs

\* the entries of the log that belong to a relationship of the given ids
LogOf(log, ids) == SelectSeq(log, LAMBDA l : l.relationship_id \in ids)

\* the log lost entries of removed relationships only
LogLostRemovedOnly ==
    LET kept == {r.id : r \in relationships'}
    IN  /\ LogOf(logs', kept) = LogOf(logs, kept)
        /\ Len(logs') <= Len(logs)
        /\ \A i \in 1..Len(logs') : \E j \in 1..Len(logs) : logs'[i] = logs[j]

\* C13: the audit log is append-only: every step other than delete_node
\* keeps each RelationshipLog entry, unchanged; delete_node removes only
\* entries of the relationships it removes.
C13_LogAppendOnly ==
    [][IF IsDeleteNodeStep THEN LogLostRemovedOnly ELSE LogKept]_vars

\* delete_node removed one relationship and its log entry while the entry of
\* another relationship stayed
C13_Witness ==
    /\ toast.msg = "Deleted node and relationships"
    /\ toast.count = 1
    /\ Len(logs) = 1
    /\ logs[1].relationship_id = 2
    /\ {r.id : r \in relationships} = {2}

(* ---------------------------------------------------------------------- *)
\* the rows before the step whose is_active the step turned on
Reactivated ==
    {r \in relationships :
        ~r.is_active /\ \E q \in relationships' : q.id = r.id /\ q.is_active}

\* the step inserted a row: an id the table did not hold
Inserted == {q \in relationships' : \A r \in relationships : r.id # q.id}

C14_Mutations ==
    /\ \A id \in RelIdInputs, s \in ScoreInputs :
          (GetRel(id) # {} /\ update_relationship_score(id, s))
              => AppendedOneFor(id, "score_change")
    /\ \A id \in RelIdInputs, T \in RelationshipTerm :
          (GetRel(id) # {} /\ update_relationship_term(id, T))
              => AppendedOneFor(id, "term_change")
    /\ \A id \in RelIdInputs :
          (GetRel(id) # {} /\ soft_delete_relationship(id))
              => AppendedOneFor(id, "soft_delete")
    /\ \A r \in Reactivated :
          \/ AppendedOneFor(r.id, "reactivate")
          \/ AppendedOneFor(r.id, "reactivate_panel")

C14_Creations == Inserted # {} => logs' = logs

\* C14: every successful mutation of an existing relationship appends exactly
\* one log entry, for that relationship and tagged with the mutation; the
\* insertion of a new relationship appends none.
C14_OneLogPerMutation == [][C14_Mutations /\ C14_Creations]_vars

\* a relationship inserted from the panel was soft-deleted and reactivated:
\* two entries, none for the insertion
C14_Witness ==
    /\ Len(logs) = 2
    /\ logs[1].action = "soft_delete"
    /\ logs[2].action = "reactivate_panel"
    /\ logs[2].relationship_id = logs[1].relationship_id
    /\ \E r \in relationships : r.id = logs[2].relationship_id /\ r.is_active

(* ---------------------------------------------------------------------- *)
C15_Scores ==
    \A r \in Reactivated :
        /\ LastLogAfter.previous_score = r.score
        /\ LastLogAfter.action = "reactivate" => LastLogAfter.new_score = r.score
        /\ LastLogAfter.action = "reactivate_panel"
              => LastLogAfter.new_score = creation_score

\* C15: the entry a reactivation appends has previous_score = the score the
\* relationship had just before; new_score is that same score on the
\* drag-connect path and the panel's score on the panel path.
C15_ReactivationScores == [][C15_Scores]_vars

(* ---------------------------------------------------------------------- *)
\* the notifications that report a failure
FailureToasts == {Toast("Failed to update term"), Toast("Failed to delete relationship")}

C16_Aborted ==
    /\ UNCHANGED <<relationships, logs, panel, editing>>
    /\ toast' \in FailureToasts

C16_Handlers ==
    \A id \in RelIdInputs :
        GetRel(id) = {} =>
            /\ \A s \in ScoreInputs : update_relationship_score(id, s) => C16_Aborted
            /\ \A T \in TermInputs : update_relationship_term(id, T) => C16_Aborted
            /\ soft_delete_relationship(id) => C16_Aborted

\* C16: for an id that resolves to no Relationship, update_relationship_score,
\* update_relationship_term and soft_delete_relationship leave both tables
\* and the panel state unchanged and report a failure notification.
C16_NotFoundAborts == [][C16_Handlers]_vars

(* ---------------------------------------------------------------------- *)
\* the nodes the view shows
ViewNodes ==
    {<<"company", id>> : id \in DOMAIN filtered_accounts}
        \cup {<<"person", id>> : id \in DOMAIN filtered_contacts}

\* the rows the selection counts in the current state
Counted == CountedRels(relationships, show_historic)

\* the node references that occur in a counted row
Occurring == {SourceKey(r) : r \in Counted} \cup {TargetKey(r) : r \in Counted}

Degree(n) ==
    Cardinality({r \in Counted : SourceKey(r) = n})
        + Cardinality({r \in Counted : TargetKey(r) = n})

\* where the scan by id first meets a node: row by row, source before target
FirstSeen(n) ==
    Min({2 * r.id - 1 : r \in {x \in Counted : SourceKey(x) = n}}
            \cup {2 * r.id : r \in {x \in Counted : TargetKey(x) = n}})

\* m is ranked before n
Ahead(m, n) ==
    \/ Degree(m) > Degree(n)
    \/ Degree(m) = Degree(n) /\ FirstSeen(m) < FirstSeen(n)

\* the first `limit` references of the ranking
TopRanked(limit) ==
    {n \in Occurring : Cardinality({m \in Occurring : Ahead(m, n)}) < limit}

\* the store is the one store and every one of its rows is counted
IsStore(s) ==
    /\ accounts = s.accounts
    /\ contacts = s.contacts
    /\ {r.id : r \in Counted} = {r.id : r \in s.relationships}

NodeA == <<"company", 1>>

NodeB == <<"person", 1>>

NodeC == <<"person", 2>>

C18_Examples ==
    IsStore(StarStore) =>
        /\ node_limit = 2 => ViewNodes = {NodeA, NodeB}
        /\ node_limit = 3 => ViewNodes = {NodeA, NodeB, NodeC}

\* C18: with no search text the view shows exactly the first node_limit
\* references of the ranking by degree, descending, ties in first-seen order
\* of the scan; no shown node has a lower degree than a node left out; for
\* degrees A 3, B 2, C 2, D 1 limit 2 shows {A, B} and limit 3 {A, B, C}.
C18_TopConnectedRanking ==
    IsBlank(search_query) =>
        /\ ViewNodes = TopRanked(node_limit)
        /\ \A n \in ViewNodes, u \in Occurring \ ViewNodes : Degree(n) >= Degree(u)
        /\ C18_Examples

\* the ranking cut a tie: B is shown and C, of the same degree, is not
C18_Witness ==
    /\ IsStore(StarStore)
    /\ IsBlank(search_query)
    /\ node_limit = 2
    /\ ViewNodes = {NodeA, NodeB}
    /\ Degree(NodeB) = Degree(NodeC)

(* ---------------------------------------------------------------------- *)
\* the entities whose name matches the search text
SeedSet == Seeds(accounts, contacts, search_query)

Linked(m, n) ==
    \E r \in Counted :
        \/ SourceKey(r) = m /\ TargetKey(r) = n
        \/ SourceKey(r) = n /\ TargetKey(r) = m

\* the nodes at graph distance <= 2 of a seed
WithinTwo ==
    SeedSet
        \cup {n \in Occurring : \E s \in SeedSet : Linked(s, n)}
        \cup {n \in Occurring :
                \E s \in SeedSet, m \in Occurring : Linked(s, m) /\ Linked(m, n)}

\* C19: for a search text with seed set S, when at most node_limit nodes are
\* within distance 2 of a seed the view shows exactly those nodes; when S is
\* empty the shown accounts, contacts and relationships are all empty.
C19_TwoHopExpansion ==
    ~IsBlank(search_query) =>
        /\ (SeedSet # {} /\ Cardinality(WithinTwo) <= node_limit)
              => ViewNodes = WithinTwo
        /\ SeedSet = {}
              => /\ DOMAIN filtered_accounts = {}
                 /\ DOMAIN filtered_contacts = {}
                 /\ filtered_relationships = {}

\* a search from the company A reached D, one hop away, and every node within
\* two hops, while E, linked to nothing, stayed out
C19_Witness ==
    /\ IsStore(StarStore)
    /\ search_query = <<"a">>
    /\ SeedSet = {NodeA}
    /\ node_limit = 100
    /\ ViewNodes = {NodeA, NodeB, NodeC, <<"person", 3>>}

(* ---------------------------------------------------------------------- *)
NodeX == <<"person", 1>>

NodeY == <<"person", 2>>

NodeZ == <<"person", 3>>

NodeW == <<"person", 4>>

NodeV == <<"person", 5>>

\* the chain, searched for X alone with the default limit
ChainSearch ==
    /\ IsStore(ChainStore)
    /\ SeedSet = {NodeX}
    /\ ~IsBlank(search_query)
    /\ node_limit = 100

\* C20 as stated: the search from X over the chain shows X, Y, Z and W and
\* not V.
C20_ChainIncludesW ==
    ChainSearch =>
        /\ {NodeX, NodeY, NodeZ, NodeW} \subseteq ViewNodes
        /\ NodeV \notin ViewNodes

\* C20: the search from X over the chain X - Y - Z - W - V shows X, Y and Z,
\* the nodes within two hops, and neither W, three hops away, nor V.
C20_ChainTwoHops ==
    ChainSearch => ViewNodes = {NodeX, NodeY, NodeZ}

C20_Witness ==
    /\ ChainSearch
    /\ search_query = <<"x">>
    /\ NodeZ \in ViewNodes
    /\ NodeW \notin ViewNodes

(* ---------------------------------------------------------------------- *)
\* the view after the step is a result of the selector on the store and the
\* view parameters after the step
C17_Refreshed ==
    \E sel \in SelectedNodeSets(accounts', contacts',
                                CountedRels(relationships', show_historic'),
                                search_query', node_limit') :
        /\ filtered_accounts' = SelectedAccounts(accounts', sel)
        /\ filtered_contacts' = SelectedContacts(contacts', sel)
        /\ filtered_relationships' =
              SelectedRelationships(CountedRels(relationships', show_historic'), sel)

\* the notifications of a write that succeeded
SuccessMessages ==
    {"Relationship deleted", "Updated relationship to", "Deleted node and relationships",
     "Created successfully", "Node updated successfully"}

StoreNow == Tables(accounts, contacts, relationships, logs)

StoreNext == Tables(accounts', contacts', relationships', logs')

\* the row a session's handler was called on
SessionRel == CHOOSE r \in relationships : r.id = session.args[1]

\* all the writes of the open session's mutation, on the tables as they are
AllWrites ==
    CASE session.handler = "update_relationship_score" ->
           [StoreNow EXCEPT
              !.relationships = (@ \ {SessionRel})
                                   \cup {ScoreUpdated(SessionRel, session.args[2])},
              !.logs = Append(@, ScoreLog(SessionRel, session.args[2]))]
      [] session.handler = "soft_delete_relationship" ->
           [StoreNow EXCEPT
              !.relationships = (@ \ {SessionRel}) \cup {SoftDeleted(SessionRel)},
              !.logs = Append(@, SoftDeleteLog(SessionRel))]
      [] session.handler = "update_relationship_term" ->
           [StoreNow EXCEPT
              !.relationships = (@ \ {SessionRel})
                                   \cup {TermUpdated(SessionRel, session.args[2])},
              !.logs = Append(@, TermLog(SessionRel, session.args[2]))]
      [] session.handler = "on_connect" ->
           [StoreNow EXCEPT
              !.relationships = (@ \ {SessionRel}) \cup {ConnectReactivated(SessionRel)},
              !.logs = Append(@, ConnectReactivateLog(SessionRel))]
      [] session.handler = "delete_node" ->
           LET node_id   == session.args[1]
               node_type == session.args[2]
               rels      == RelsToDelete(node_id, node_type)
           IN  [StoreNow EXCEPT
                  !.relationships = @ \ rels,
                  !.logs = LogsAfterDelete(rels),
                  !.accounts = IF node_type = "company"
                               THEN WithoutRow(@, node_id) ELSE @,
                  !.contacts = IF node_type = "company" /\ node_id \in DOMAIN accounts
                               THEN ContactsDetached(node_id)
                               ELSE IF node_type = "person"
                                    THEN WithoutRow(@, node_id) ELSE @]

\* C12: whatever statement of a lifecycle mutation the store fails at, the
\* committed tables afterwards hold all of that mutation's writes (the row
\* change with its log entry, the whole cascade) or none of them.
C12_NoPartialWrites ==
    [][session.handler # "none" => (StoreNext = StoreNow \/ StoreNext = AllWrites)]_vars

\* delete_node failed with statements pending: the node, its relationship and
\* the log entry are all still stored
C12_Witness ==
    /\ toast = Toast("Failed to delete node")
    /\ session = NoSession
    /\ relationships # {}
    /\ logs # <<>>
    /\ DOMAIN accounts = {1}
    /\ DOMAIN contacts = {1, 2}

(* ---------------------------------------------------------------------- *)
\* the log entries of a relationship with one of the given tags
Entries(id, tags) ==
    {i \in 1..Len(logs) : logs[i].relationship_id = id /\ logs[i].action \in tags}

\* C11: two sessions that reactivate the same inactive relationship with
\* their lookups and writes interleaved leave exactly one reactivation entry:
\* a relationship never has more reactivation entries than soft deletes.
C11_OneReactivation ==
    \A r \in relationships :
        Cardinality(Entries(r.id, {"reactivate", "reactivate_panel"}))
            <= Cardinality(Entries(r.id, {"soft_delete"}))

(* ---------------------------------------------------------------------- *)
\* C21: in both selection modes the view never shows more than node_limit
\* nodes, also when the entities matching the search text alone, or the
\* nodes of one hop, are more than node_limit.
C21_SelectionBounded == Cardinality(ViewNodes) <= node_limit

\* every contact matched the search text, more than node_limit of them, and
\* the view was cut to node_limit nodes
C21_Witness ==
    /\ search_query = <<"n">>
    /\ Cardinality(SeedSet) > node_limit
    /\ Cardinality(ViewNodes) = node_limit

(* ---------------------------------------------------------------------- *)
\* the ids of the edges graph_data draws
EdgeIds == {graph_data.edges[i].id : i \in DOMAIN graph_data.edges}

\* C22: in both selection modes the shown relationships are exactly the rows
\* that pass the activity filter (active rows, and inactive ones too when
\* show_historic is set) and have both endpoints among the shown nodes; with
\* show_historic off no inactive row is an edge of graph_data.
C22_InducedEdges ==
    /\ filtered_relationships =
          {r \in CountedRels(relationships, show_historic) :
              SourceKey(r) \in ViewNodes /\ TargetKey(r) \in ViewNodes}
    /\ ~show_historic =>
          \A r \in relationships : ~r.is_active => RelEdgeId(r.id) \notin EdgeIds

\* historic rows are shown: an inactive row is an edge, while a counted row
\* with an endpoint outside the view is not
C22_Witness ==
    /\ show_historic
    /\ \E r \in filtered_relationships :
          ~r.is_active /\ RelEdgeId(r.id) \in EdgeIds
    /\ \E r \in Counted : r \notin filtered_relationships /\ SourceKey(r) \in ViewNodes

(* ---------------------------------------------------------------------- *)
\* the edges graph_data draws
Edges == {graph_data.edges[i] : i \in DOMAIN graph_data.edges}

Nodes == {graph_data.nodes[i] : i \in DOMAIN graph_data.nodes}

\* a string of the form <prefix>-<integer>
IsRef(id_str, prefix) ==
    Len(id_str) = 2 /\ id_str[1] = prefix /\ IsIntStr(id_str[2])

\* emp-<sourceId>-<targetId> for the edge's own source and target
IsEmploymentId(e) ==
    /\ Len(e.id) = 3
    /\ e.id[1] = "emp"
    /\ e.id[2] = e.source[2]
    /\ e.id[3] = e.target[2]

\* C23: in graph_data every Company node id is acc-<id>, every Person node id
\* is con-<id>, every relationship edge id is rel-<id>, and every employment
\* edge drawn from account_id has the id emp-<sourceId>-<targetId>, the
\* numeric ids of that edge's source and target nodes in that order.
C23_RenderIds ==
    /\ \A n \in Nodes :
          /\ n.group = "company" => IsRef(n.id, "acc")
          /\ n.group = "person" => IsRef(n.id, "con")
    /\ \A e \in Edges :
          /\ e.id[1] = "rel" => IsRef(e.id, "rel")
          /\ e.id[1] # "rel" => IsEmploymentId(e)

(* ---------------------------------------------------------------------- *)
\* no Relationship row changed in is_active, score or term
RowsKeepLifecycle ==
    /\ {r.id : r \in relationships'} = {r.id : r \in relationships}
    /\ \A r \in relationships : \E x \in relationships' :
          /\ x.id = r.id
          /\ x.is_active = r.is_active
          /\ x.score = r.score
          /\ x.term = r.term

\* C24: while an employment edge drawn from account_id (id emp-...) is the
\* selected edge, no control offered for it (the edge panel's Delete
\* Relationship button, delete_current_selection, save_relationship_update,
\* handle_term_change) changes is_active, score or term of a Relationship row
\* or appends a RelationshipLog entry.
C24_EmploymentEdgeInert ==
    [][StartsWith(selected_edge_id, "emp") => RowsKeepLifecycle /\ logs' = logs]_vars

(* ---------------------------------------------------------------------- *)
\* the edges of active rows that are not of the employment type
ScoredEdges ==
    {e \in Edges :
        /\ e.id[1] = "rel"
        /\ e.data.is_active
        /\ e.data.type # "employment"}

ColorRed == <<"#", "e", "f", "4", "4", "4", "4">>

ColorGray == <<"#", "9", "c", "a", "3", "a", "f">>

ColorGreen == <<"#", "1", "0", "b", "9", "8", "1">>

\* C28: get_edge_color gives #ef4444 for score -100, #9ca3af for 0 and #10b981
\* for 100; a score above 100 gets the color of 100 and a score below -100 the
\* color of -100.
C28_ColorEndpoints ==
    \A e \in ScoredEdges :
        /\ e.data.score <= -100 => e.style.stroke = ColorRed
        /\ e.data.score = 0 => e.style.stroke = ColorGray
        /\ e.data.score >= 100 => e.style.stroke = ColorGreen

\* a link stored with score 200 is drawn in the green of score 100
C28_Witness ==
    \E e \in ScoredEdges : e.data.score = 200 /\ e.style.stroke = ColorGreen

(* ---------------------------------------------------------------------- *)
TotalNodes == Cardinality(DOMAIN filtered_accounts) + Cardinality(DOMAIN filtered_contacts)

C25_MalformedRejected ==
    [][\A m \in MalformedRefs, n \in ExistingNodes :
          (\/ on_connect(m, NodeFullId(n[1], n[2]))
           \/ on_connect(NodeFullId(n[1], n[2]), m))
              => relationships' = relationships /\ logs' = logs]_vars

\* C26: no Company has an empty or whitespace-only name and no Person an
\* empty or whitespace-only first name
C26_NoEmptyNames ==
    /\ \A id \in DOMAIN accounts : ~IsBlank(accounts[id].name)
    /\ \A id \in DOMAIN contacts : ~IsBlank(contacts[id].first_name)

\* a stored row of the variant carries these names, ignoring case
NameTaken(node_type, first_name, last_name) ==
    IF node_type = "company"
    THEN \E id \in DOMAIN accounts : Lower(accounts[id].name) = Lower(first_name)
    ELSE \E id \in DOMAIN contacts :
            /\ Lower(contacts[id].first_name) = Lower(first_name)
            /\ Lower(contacts[id].last_name) = Lower(last_name)

\* a stored row of the other variant carries the name, ignoring case
OtherVariantNamed(node_type, name) ==
    IF node_type = "company"
    THEN \E id \in DOMAIN contacts :
            Lower(contacts[id].first_name) = Lower(name)
    ELSE \E id \in DOMAIN accounts : Lower(accounts[id].name) = Lower(name)

RowsInserted ==
    Cardinality(DOMAIN accounts') + Cardinality(DOMAIN contacts')
        = Cardinality(DOMAIN accounts) + Cardinality(DOMAIN contacts) + 1

\* C27: a creation whose names a row of the same variant already carries,
\* ignoring case, inserts nothing, through save_node in create mode and
\* through add_node; a non-empty name carried only by a row of the other
\* variant is inserted
C27_UniqueOnCreate ==
    [][/\ (save_node /\ node_create_mode
             /\ NameTaken(new_node_type, new_node_name, new_node_last_name))
          => UNCHANGED <<accounts, contacts>>
       /\ \A node_type \in NodeTypeInputs, name \in FormNames :
             (add_node(node_type, name, <<>>)
                /\ NameTaken(node_type,
                             IF node_type = "company" THEN name
                             ELSE SplitFirstName(name),
                             SplitLastName(name)))
             => UNCHANGED <<accounts, contacts>>
       /\ (save_node /\ node_create_mode /\ ~IsBlank(new_node_name)
             /\ OtherVariantNamed(new_node_type, new_node_name)
             /\ ~NameTaken(new_node_type, new_node_name, new_node_last_name))
          => RowsInserted
       /\ \A node_type \in NodeTypeInputs, name \in FormNames :
             (add_node(node_type, name, <<>>) /\ ~IsBlank(name)
                /\ OtherVariantNamed(node_type, name)
                /\ ~NameTaken(node_type,
                              IF node_type = "company" THEN name
                              ELSE SplitFirstName(name),
                              SplitLastName(name)))
             => RowsInserted]_vars

\* a person w was created beside the company W, and a second company w was
\* then refused
C27_Witness ==
    /\ toast = Toast("Company already exists")
    /\ \E id \in DOMAIN contacts : contacts[id].first_name = <<"w">>
    /\ Cardinality(DOMAIN accounts) = 1
    /\ accounts[1].name = <<"W">>

\* C30: the side panel is closed, or it is open and displays exactly one of
\* its five views
C30_OneMode == show_side_panel => Cardinality(ViewsDisplayed) = 1

\* C31: while the Add Connection view is being filled in, a source node is
\* selected
C31_CreationHasSource == is_creating_relationship => selected_node_id # EmptyStr

\* C32: every Relationship row's relationship_type is the type TERM_TO_TYPE
\* gives for its term
C32_TypeFromTerm ==
    \A r \in relationships : r.relationship_type = TERM_TO_TYPE(r.term)

\* the rows a step inserts
InsertedRels == {r \in relationships' : r.id \notin {q.id : q \in relationships}}

\* C33: a row inserted by a drag-connect or by the Add Connection view, with
\* no score set by the user, is active and carries the directedness and the
\* default score TERM_DEFAULTS gives for its term
C33_TermDefaultsOnCreate ==
    [][\A r \in InsertedRels :
          /\ r.is_active
          /\ r.is_directed = TERM_DEFAULTS(r.term).is_directed
          /\ r.score = TERM_DEFAULTS(r.term).default_score]_vars

\* relationship rel_id is stored and its edge is the one the edge panel shows
RelEdgeSelected(rel_id) ==
    /\ EdgeViewShown
    /\ selected_edge_id = RelEdgeId(rel_id)
    /\ GetRel(rel_id) # {}
    /\ CanLog

\* the step appends one log entry of the given action for the relationship
OneLogAppended(rel_id, action) ==
    /\ Len(logs') = Len(logs) + 1
    /\ SubSeq(logs', 1, Len(logs)) = logs
    /\ logs'[Len(logs')].relationship_id = rel_id
    /\ logs'[Len(logs')].action = action

\* C34: with the edge rel-N of a stored relationship selected, Save Changes
\* leaves relationship N with score editing_score and one new score_change
\* log entry, and choosing a term T leaves it with term T and one new
\* term_change log entry
C34_EdgeEditsReachStore ==
    \A rel_id \in RelIdInputs :
        RelEdgeSelected(rel_id) =>
            /\ ENABLED (/\ save_relationship_update
                        /\ \A r \in relationships' :
                              r.id = rel_id => r.score = editing_score
                        /\ OneLogAppended(rel_id, "score_change"))
            /\ \A new_term \in TermInputs :
                  ENABLED (/\ handle_term_change(new_term)
                           /\ \A r \in relationships' :
                                 r.id = rel_id => r.term = new_term
                           /\ OneLogAppended(rel_id, "term_change"))

\* the node is one of the row's endpoints
EndpointOf(r, node_type, node_id) ==
    \/ r.source_type = node_type /\ r.source_id = node_id
    \/ r.target_type = node_type /\ r.target_id = node_id

\* the log entries of the rows that do not touch the node, in order
LogsAway(log, node_type, node_id) ==
    SelectSeq(log, LAMBDA l :
        \E r \in relationships :
            r.id = l.relationship_id /\ ~EndpointOf(r, node_type, node_id))

\* every Account and Contact row but the node's keeps its name fields
OtherNamesKept(node_type, node_id) ==
    /\ \A id \in DOMAIN accounts :
          (node_type = "company" /\ id = node_id)
          \/ (id \in DOMAIN accounts'
              /\ accounts'[id].name = accounts[id].name
              /\ accounts'[id].ticker = accounts[id].ticker)
    /\ \A id \in DOMAIN contacts :
          (node_type = "person" /\ id = node_id)
          \/ (id \in DOMAIN contacts'
              /\ contacts'[id].first_name = contacts[id].first_name
              /\ contacts'[id].last_name = contacts[id].last_name
              /\ contacts'[id].job_title = contacts[id].job_title)

\* C35: delete_node(id, type) keeps every Relationship row that has neither
\* end at (type, id), the log entries of those rows, and the name fields of
\* every other entity, the entity of the other variant with the same numeric
\* id included
C35_DeleteTouchesNothingElse ==
    [][\A n \in ExistingNodes :
          delete_node(n[2], n[1]) =>
              /\ \A r \in relationships :
                    ~EndpointOf(r, n[1], n[2]) => r \in relationships'
              /\ LogsAway(logs', n[1], n[2]) = LogsAway(logs, n[1], n[2])
              /\ OtherNamesKept(n[1], n[2])]_vars

\* company 1 was deleted with one relationship; person 1 and a logged
\* relationship of person 1 are still stored
C35_Witness ==
    /\ toast.msg = "Deleted node and relationships"
    /\ toast.count = 1
    /\ 1 \notin DOMAIN accounts
    /\ 1 \in DOMAIN contacts
    /\ \E r \in relationships :
          /\ EndpointOf(r, "person", 1)
          /\ \E i \in 1..Len(logs) : logs[i].relationship_id = r.id

\* C36: while the node edit view is displayed, the node being edited is the
\* selected node
C36_EditedIsSelected ==
    (show_side_panel /\ NodeEditView)
        => selected_node_id = NodeFullId(editing_node_type, editing_node_id)

\* C37: in search mode, when the nodes matching the query number at most
\* node_limit, each of them is among the shown nodes
C37_SeedsKept ==
    (~IsBlank(search_query) /\ Cardinality(SeedSet) <= node_limit)
        => SeedSet \subseteq ViewNodes

\* C38: both ends of every Relationship row are stored entities, and every
\* RelationshipLog entry belongs to a stored Relationship
C38_ReferentialIntegrity ==
    /\ \A r \in relationships :
          /\ <<r.source_type, r.source_id>> \in ExistingNodes
          /\ <<r.target_type, r.target_id>> \in ExistingNodes
    /\ \A i \in 1..Len(logs) : GetRel(logs[i].relationship_id) # {}

\* the soft_delete and reactivation entries of a relationship's log, in order
LifecycleLog(rel_id) ==
    SelectSeq(logs, LAMBDA l :
        /\ l.relationship_id = rel_id
        /\ l.action \in {"soft_delete", "reactivate", "reactivate_panel"})

\* C39: in each relationship's log the soft_delete entries and the
\* reactivation entries alternate, starting with a soft_delete, and the row is
\* inactive exactly when the last of them is a soft_delete
C39_TrailMirrorsActivity ==
    \A r \in relationships :
        /\ \A i \in 1..Len(LifecycleLog(r.id)) :
              (LifecycleLog(r.id)[i].action = "soft_delete") <=> (i % 2 = 1)
        /\ r.is_active <=> (Len(LifecycleLog(r.id)) % 2 = 0)

\* the nodes no relationship in the current view refers to: active rows only,
\* unless historic rows are shown
IsolatedNodes ==
    {n \in ExistingNodes :
        \A r \in relationships :
            (show_historic \/ r.is_active)
                => (SourceKey(r) # n /\ TargetKey(r) # n)}

====
